---- MODULE Spec2Model ----
(***************************************************************************)
(* A model of the dependency graph engine of graphd (graph.c): the vertex  *)
(* and edge store, the graph builder, the satisfiability evaluator, the    *)
(* propagation engine and the note queue; and of the unit state machine of *)
(* restartd (unit.c).                                                      *)
(*                                                                         *)
(* A vertex is identified by its position in the vertex list `graph`       *)
(* (vertices are never removed, so the position is as stable as the C      *)
(* pointer).  An edge list is the sequence of the positions of the edges'  *)
(* `to` ends, in insertion order.                                          *)
(***************************************************************************)
EXTENDS Integers, Sequences, FiniteSets, TLC

VARIABLES
    repo,      \* the repository: declared dependency groups of each path
    graph,     \* vertex_list_t graph
    notes,     \* the note queue
    aborted,   \* the process ended in assert()/abort()
    addLog,    \* the vtx_dependency_add calls rejected by the last operation
    lastOp,    \* the last operation the environment invoked
    result,    \* the last satisfiability evaluation
    units,     \* Unit_list_t manager.units of restartd
    ts,        \* timerset_t manager.ts of restartd
    pt         \* S16ProcessTracker manager.pt of restartd: the watched PIDs

vars == <<repo, graph, notes, aborted, addLog, lastOp, result, units, ts, pt>>

(***************************************************************************)
(* Bounds of the model.                                                    *)
(***************************************************************************)
MaxDecl == 3      \* declared (group, target) entries of a builder repository
MaxSatDecl == 2   \* the same, for the repositories of the evaluator
MaxNoteDecl == 2  \* the same, for the repositories of the propagation engine
MaxQueue == 6     \* notes in the queue

(***************************************************************************)
(* Enumerations.                                                           *)
(***************************************************************************)
SATISFIED == 0
UNSATISFIED == 1
UNSATISFIABLE == 2
ABORTED == 3      \* the evaluation ended in assert()/abort()

kS16RestartOnNone == 0
kS16RestartOnError == 1
kS16RestartOnRestart == 2
kS16RestartOnRefresh == 3
kS16RestartOnAny == 4

GroupKinds == {"kS16RequireAll", "kS16RequireAny", "kS16OptionalAll", "kS16ExcludeAll"}

States == {"Uninitialised", "Disabled", "Offline", "Online", "Degraded", "Maintenance"}

(***************************************************************************)
(* Paths.  inst = "" stands for the NULL instance name of a service path.  *)
(***************************************************************************)
S16PathNew(svc, inst) == [svc |-> svc, inst |-> inst]

S16PathEqual(p, q) == p.svc = q.svc /\ p.inst = q.inst

\* make_depgroup_path allocates the length of "%s>%d" and writes
\* "%s#depgroups/%d" into it: every call writes past the end of the buffer,
\* which is undefined.  A build that does not check the write returns the
\* suffixed path; a build that checks it (fortified, sanitized) ends the
\* process in the sprintf.  The result is the path, or abort.
make_depgroup_path(path, cnt, checked) ==
    IF checked
    THEN [abort |-> TRUE, path |-> path]
    ELSE [abort |-> FALSE,
          path |-> IF path.inst # ""
                   THEN [path EXCEPT !.inst = @ \o "#depgroups/" \o ToString(cnt)]
                   ELSE [path EXCEPT !.svc = @ \o "#depgroups/" \o ToString(cnt)]]

(***************************************************************************)
(* The services of the repository and their instances.                     *)
(***************************************************************************)
Services == {"a", "b", "c"}

ServiceOrder == <<"a", "b", "c">>

\* The instance lists of the services: of the larger repositories, and of
\* the smaller ones (service c has one instance).
InstsTwo ==
    [s \in Services |-> CASE s = "a" -> <<"i">> [] s = "b" -> <<"j">> [] s = "c" -> <<"k", "l">>]

InstsOne ==
    [s \in Services |-> CASE s = "a" -> <<"i">> [] s = "b" -> <<"j">> [] s = "c" -> <<"k">>]

SvcPath(s) == S16PathNew(s, "")

InstPaths ==
    UNION {{S16PathNew(s, InstsTwo[s][n]) : n \in 1..Len(InstsTwo[s])} : s \in Services}

PathAI == S16PathNew("a", "i")
PathBJ == S16PathNew("b", "j")
PathCK == S16PathNew("c", "k")
PathCL == S16PathNew("c", "l")

(***************************************************************************)
(* Vertex/edge store.                                                      *)
(***************************************************************************)
vtx_find_by_path(g, name) ==
    IF \E n \in 1..Len(g) : S16PathEqual(g[n].path, name)
    THEN CHOOSE n \in 1..Len(g) :
            /\ S16PathEqual(g[n].path, name)
            /\ \A m \in 1..(n - 1) : ~S16PathEqual(g[m].path, name)
    ELSE 0

NewVertex(path, type, dg_type, restart_on) ==
    [path |-> path, type |-> type, dg_type |-> dg_type, restart_on |-> restart_on,
     state |-> "Uninitialised", is_setup |-> FALSE, is_enabled |-> FALSE,
     to_offline |-> FALSE, to_disable |-> FALSE,
     dependencies |-> <<>>, dependents |-> <<>>]

\* The list after vtx_find_or_add; the vertex is then vtx_find_by_path of it.
vtx_find_or_add(g, path, type, dg_type, restart_on) ==
    IF vtx_find_by_path(g, path) # 0
    THEN g
    ELSE Append(g, NewVertex(path, type, dg_type, restart_on))

\* An edge added to the dependencies list alone.
vtx_edge_add_oneway(g, v, to) ==
    [g EXCEPT ![v].dependencies = Append(@, to)]

vtx_edge_add(g, v, to) ==
    LET g1 == [g EXCEPT ![v].dependencies = Append(@, to)]
    IN  [g1 EXCEPT ![to].dependents = Append(@, v)]

vtx_is_running(g, v) ==
    g[v].state = "Online" \/ g[v].state = "Degraded"

(***************************************************************************)
(* Reachability.  The result of vtx_is_reachable_internal is its return    *)
(* value `cont` with the two lists it updates.                             *)
(***************************************************************************)
RECURSIVE vtx_is_reachable_internal(_, _, _, _, _)
RECURSIVE vtx_is_reachable_loop(_, _, _, _, _, _)

vtx_is_reachable_loop(g, v, n, to, seen, pathTo) ==
    IF n > Len(g[v].dependencies)
    THEN [cont |-> TRUE, seen |-> seen, pathTo |-> pathTo]
    ELSE LET r == vtx_is_reachable_internal(g, g[v].dependencies[n], to, seen, pathTo)
         IN  IF ~r.cont
             THEN r
             ELSE vtx_is_reachable_loop(g, v, n + 1, to, r.seen, r.pathTo)

vtx_is_reachable_internal(g, v, to, seen, pathTo) ==
    IF v \in seen
    THEN [cont |-> FALSE, seen |-> seen, pathTo |-> pathTo]
    ELSE IF g[v].dg_type = "kS16ExcludeAll"
    THEN [cont |-> FALSE, seen |-> seen \cup {v}, pathTo |-> pathTo]
    ELSE IF v = to
    THEN [cont |-> FALSE, seen |-> seen \cup {v}, pathTo |-> <<v>> \o pathTo]
    ELSE LET r == vtx_is_reachable_loop(g, v, 1, to, seen \cup {v}, pathTo)
         IN  IF Len(r.pathTo) > 0
             THEN [r EXCEPT !.pathTo = <<v>> \o @]
             ELSE r

vtx_is_reachable(g, from, to, pathTo) ==
    LET r == vtx_is_reachable_internal(g, from, to, {}, pathTo)
    IN  [reach |-> Len(r.pathTo) > 0, pathTo |-> r.pathTo]

(***************************************************************************)
(* Graph builder.  The builder's operations work on a context: the vertex  *)
(* list g, the caller's pathTo list, the return value ret of the last      *)
(* call, abort (an assert() failed) and the log of the rejected            *)
(* vtx_dependency_add calls (the "Cyclical dependency" log lines), each    *)
(* with the pathTo list it left.  checked says whether the build checks    *)
(* the write of make_depgroup_path.                                        *)
(***************************************************************************)
NewCtx(g) ==
    [g |-> g, pathTo |-> <<>>, ret |-> 0, abort |-> FALSE, log |-> <<>>,
     checked |-> FALSE]

\* the context of a build that does (checked) or does not check the write
BuildCtx(g, checked) == [NewCtx(g) EXCEPT !.checked = checked]

PathsOf(g, vs) == [n \in 1..Len(vs) |-> g[vs[n]].path]

\* An add that does not check for a cycle.
vtx_dependency_add_unchecked(ctx, v, to) ==
    [ctx EXCEPT !.g = vtx_edge_add(@, v, to), !.ret = 0]

vtx_dependency_add(ctx, v, to) ==
    LET r == vtx_is_reachable(ctx.g, to, v, ctx.pathTo)
    IN  IF r.reach
        THEN [ctx EXCEPT !.pathTo = r.pathTo, !.ret = 1,
                         !.log = Append(@, [from |-> ctx.g[v].path,
                                            to |-> ctx.g[to].path,
                                            pathTo |-> PathsOf(ctx.g, r.pathTo)])]
        ELSE [ctx EXCEPT !.g = vtx_edge_add(@, v, to), !.pathTo = r.pathTo, !.ret = 0]

\* The declared dependency groups s16db_lookup_path finds for a vertex.
Depgroups(rp, g, v) == rp.groups[g[v].path]

RECURSIVE vtx_setup(_, _, _)
RECURSIVE vtx_update_loop(_, _, _, _)
RECURSIVE setup_depgroup_loop(_, _, _, _, _)

setup_dep(rp, ctx, path, vg) ==
    LET vdep == vtx_find_by_path(ctx.g, path)
    IN  IF vdep = 0
        THEN [ctx EXCEPT !.abort = TRUE]
        ELSE LET c1 == vtx_dependency_add(ctx, vg, vdep)
             IN  IF c1.ret # 0
                 THEN [c1 EXCEPT !.ret = 1]
                 ELSE [vtx_setup(rp, c1, vdep) EXCEPT !.ret = 0]

setup_depgroup_loop(rp, ctx, dg, dgv, n) ==
    IF n > Len(dg.paths)
    THEN [ctx EXCEPT !.ret = 0]
    ELSE LET c1 == setup_dep(rp, ctx, dg.paths[n], dgv)
         IN  IF c1.abort \/ c1.ret # 0
             THEN c1
             ELSE setup_depgroup_loop(rp, c1, dg, dgv, n + 1)

setup_depgroup(rp, ctx, v, dg, dgp) ==
    LET g1 == vtx_find_or_add(ctx.g, dgp, "V_DEPGROUP", dg.type, dg.restart_on)
        dgv == vtx_find_by_path(g1, dgp)
        c1 == vtx_dependency_add([ctx EXCEPT !.g = g1], v, dgv)
        c2 == [c1 EXCEPT !.g[v].is_setup = TRUE]
    IN  setup_depgroup_loop(rp, c2, dg, dgv, 1)

\* The loop of vtx_update over the declared groups, from group number cnt.
vtx_update_loop(rp, ctx, v, cnt) ==
    IF ctx.abort \/ cnt >= Len(Depgroups(rp, ctx.g, v))
    THEN ctx
    ELSE LET dgn == make_depgroup_path(ctx.g[v].path, cnt, ctx.checked)
             c1 == setup_depgroup(rp, ctx, v, Depgroups(rp, ctx.g, v)[cnt + 1], dgn.path)
         IN  IF dgn.abort
             THEN [ctx EXCEPT !.abort = TRUE]
             ELSE vtx_update_loop(rp, c1, v, cnt + 1)

\* pathTo is a local of vtx_update: the caller's list is untouched.
vtx_update(rp, ctx, v) ==
    IF ctx.g[v].type \in {"V_INST", "V_SVC"}
    THEN [vtx_update_loop(rp, [ctx EXCEPT !.pathTo = <<>>], v, 0)
             EXCEPT !.pathTo = ctx.pathTo]
    ELSE ctx

vtx_setup(rp, ctx, v) ==
    IF ctx.g[v].is_setup
    THEN ctx
    ELSE vtx_update(rp, [ctx EXCEPT !.g[v].is_setup = TRUE, !.g[v].is_enabled = TRUE], v)

install_inst(g, path) ==
    vtx_find_or_add(g, path, "V_INST", "kS16RequireAll", kS16RestartOnAny)

\* The loop of graph_install_service over svc->insts, from instance n.
RECURSIVE graph_install_insts(_, _, _, _)
graph_install_insts(g, sv, svc, n) ==
    IF n > Len(svc.insts)
    THEN g
    ELSE LET ip == S16PathNew(svc.path.svc, svc.insts[n])
             g1 == install_inst(g, ip)
         IN  graph_install_insts(vtx_edge_add(g1, sv, vtx_find_by_path(g1, ip)), sv, svc, n + 1)

\* An install that adds the instance edges whether or not the service is set up.
graph_install_service_again(g, svc) ==
    LET g1 == vtx_find_or_add(g, svc.path, "V_SVC", "kS16RequireAll", kS16RestartOnAny)
        sv == vtx_find_by_path(g1, svc.path)
    IN  [graph_install_insts(g1, sv, svc, 1) EXCEPT ![sv].is_setup = TRUE]

graph_install_service(g, svc) ==
    LET g1 == vtx_find_or_add(g, svc.path, "V_SVC", "kS16RequireAll", kS16RestartOnAny)
        sv == vtx_find_by_path(g1, svc.path)
    IN  IF g1[sv].is_setup
        THEN g1
        ELSE [graph_install_insts(g1, sv, svc, 1) EXCEPT ![sv].is_setup = TRUE]

\* The first pass of graph_setup_all: vtx_setup of every vertex of the list,
\* the vertices the pass itself appends included.
RECURSIVE graph_setup_all_pass(_, _, _)
graph_setup_all_pass(rp, ctx, n) ==
    IF ctx.abort \/ n > Len(ctx.g)
    THEN ctx
    ELSE graph_setup_all_pass(rp, vtx_setup(rp, ctx, n), n + 1)

(***************************************************************************)
(* Satisfiability evaluator.  A result is a satisfied_t, or ABORTED when   *)
(* the evaluation runs into a failing assert().  The evaluator recurses    *)
(* along dependency edges without a visited set: d is the number of edges  *)
(* it may still descend.  An evaluation that descends more than three      *)
(* times as many edges as the graph has vertices has come back to a vertex *)
(* in the function it is already evaluating it in, so it never returns (it *)
(* ends when the stack is exhausted), which is ABORTED as well.            *)
(***************************************************************************)
Depth(g) == 3 * Len(g)

\* The conversion of a satisfied_t to bool.
ToBool(x) == IF x # 0 THEN 1 ELSE 0

\* sat after "if (esat != SATISFIED) sat = esat", without the test that
\* keeps UNSATISFIABLE.
fold_last(sat, esat) ==
    IF esat # SATISFIED THEN esat ELSE sat

\* sat after "if (esat != SATISFIED) sat = (sat == UNSATISFIABLE) ?
\* UNSATISFIABLE : esat".
fold(sat, esat) ==
    IF esat # SATISFIED
    THEN (IF sat = UNSATISFIABLE THEN UNSATISFIABLE ELSE esat)
    ELSE sat

RECURSIVE vtx_satisfies(_, _, _, _)
RECURSIVE depgroup_is_satisfied(_, _, _, _)
RECURSIVE require_all_loop(_, _, _, _, _, _)
RECURSIVE require_any_loop(_, _, _, _, _, _)
RECURSIVE optional_all_loop(_, _, _, _, _, _)
RECURSIVE optional_svc_loop(_, _, _, _, _, _)
RECURSIVE exclude_all_loop(_, _, _, _, _)
RECURSIVE exclude_svc_loop(_, _, _, _)

\* The rule of a required instance with the results of the Maintenance case
\* and of the Online and Degraded cases exchanged.
vtx_inst_satisfies_exchanged(g, v, recurse, d) ==
    IF g[v].type # "V_INST" THEN ABORTED
    ELSE IF ~g[v].is_setup \/ ~g[v].is_enabled THEN UNSATISFIABLE
    ELSE CASE g[v].state = "Uninitialised" -> UNSATISFIED
           [] g[v].state = "Disabled" -> UNSATISFIABLE
           [] g[v].state = "Offline" ->
                IF ~recurse
                THEN UNSATISFIED
                ELSE LET dsat == depgroup_is_satisfied(g, v, recurse, d)
                     IN  IF dsat = ABORTED THEN ABORTED
                         ELSE IF dsat = UNSATISFIABLE THEN UNSATISFIABLE
                         ELSE UNSATISFIED
           [] g[v].state = "Maintenance" -> SATISFIED
           [] g[v].state \in {"Online", "Degraded"} -> UNSATISFIABLE

vtx_inst_satisfies(g, v, recurse, d) ==
    IF g[v].type # "V_INST" THEN ABORTED
    ELSE IF ~g[v].is_setup \/ ~g[v].is_enabled THEN UNSATISFIABLE
    ELSE CASE g[v].state = "Uninitialised" -> UNSATISFIED
           [] g[v].state = "Disabled" -> UNSATISFIABLE
           [] g[v].state = "Offline" ->
                IF ~recurse
                THEN UNSATISFIED
                ELSE LET dsat == depgroup_is_satisfied(g, v, recurse, d)
                     IN  IF dsat = ABORTED THEN ABORTED
                         ELSE IF dsat = UNSATISFIABLE THEN UNSATISFIABLE
                         ELSE UNSATISFIED
           [] g[v].state = "Maintenance" -> UNSATISFIABLE
           [] g[v].state \in {"Online", "Degraded"} -> SATISFIED

\* The rule of a required instance applied to an optional target.
vtx_inst_satisfies_optional_required(g, v, recurse, d) ==
    vtx_inst_satisfies(g, v, recurse, d)

vtx_inst_satisfies_optional(g, v, recurse, d) ==
    IF g[v].type # "V_INST" THEN ABORTED
    ELSE IF ~g[v].is_setup THEN SATISFIED
    ELSE CASE g[v].state = "Uninitialised" -> UNSATISFIED
           [] g[v].state = "Offline" ->
                IF ~recurse
                THEN UNSATISFIED
                ELSE LET dsat == depgroup_is_satisfied(g, v, recurse, d)
                     IN  IF dsat = ABORTED THEN ABORTED
                         ELSE IF dsat = UNSATISFIABLE THEN SATISFIED
                         ELSE UNSATISFIED
           [] g[v].state \in {"Disabled", "Maintenance", "Online", "Degraded"} -> SATISFIED

\* The exclusion rule without the test of is_enabled.
vtx_inst_satisfies_exclusion_any(g, v) ==
    IF g[v].type # "V_INST" THEN ABORTED
    ELSE IF ~g[v].is_setup THEN SATISFIED
    ELSE CASE g[v].state \in {"Uninitialised", "Offline"} -> UNSATISFIED
           [] g[v].state \in {"Maintenance", "Disabled"} -> SATISFIED
           [] g[v].state \in {"Online", "Degraded"} -> UNSATISFIED

vtx_inst_satisfies_exclusion(g, v) ==
    IF g[v].type # "V_INST" THEN ABORTED
    ELSE IF ~g[v].is_setup THEN SATISFIED
    ELSE CASE g[v].state \in {"Uninitialised", "Offline"} -> UNSATISFIED
           [] g[v].state \in {"Maintenance", "Disabled"} -> SATISFIED
           [] g[v].state \in {"Online", "Degraded"} ->
                IF g[v].is_enabled THEN UNSATISFIABLE ELSE UNSATISFIED

vtx_satisfies(g, v, recurse, d) ==
    IF g[v].type = "V_INST"
    THEN vtx_inst_satisfies(g, v, recurse, d)
    ELSE depgroup_is_satisfied(g, v, recurse, d)

\* The loop of the kS16RequireAll case, from edge n.
require_all_loop(g, v, recurse, d, n, sat) ==
    IF n > Len(g[v].dependencies)
    THEN sat
    ELSE LET esat == vtx_satisfies(g, g[v].dependencies[n], recurse, d - 1)
         IN  IF esat = ABORTED
             THEN ABORTED
             ELSE require_all_loop(g, v, recurse, d, n + 1, fold(sat, esat))

\* The loop of the kS16RequireAny case, from edge n; sat is a bool.
require_any_loop(g, v, recurse, d, n, sat) ==
    IF n > Len(g[v].dependencies)
    THEN sat
    ELSE LET esat == vtx_satisfies(g, g[v].dependencies[n], recurse, d - 1)
         IN  IF esat = ABORTED THEN ABORTED
             ELSE IF esat = SATISFIED THEN SATISFIED
             ELSE require_any_loop(g, v, recurse, d, n + 1,
                                   IF esat = UNSATISFIED THEN ToBool(esat) ELSE sat)

\* The inner loop of the kS16OptionalAll case over the dependencies of the
\* Service dv, from edge n.
optional_svc_loop(g, dv, recurse, d, n, sat) ==
    IF n > Len(g[dv].dependencies)
    THEN sat
    ELSE LET esat == vtx_inst_satisfies_optional(g, g[dv].dependencies[n], recurse, d - 2)
         IN  IF esat = ABORTED
             THEN ABORTED
             ELSE optional_svc_loop(g, dv, recurse, d, n + 1, fold(sat, esat))

optional_all_loop(g, v, recurse, d, n, sat) ==
    IF n > Len(g[v].dependencies)
    THEN sat
    ELSE LET dv == g[v].dependencies[n]
             s1 == CASE g[dv].type = "V_DEPGROUP" -> ABORTED
                     [] g[dv].type = "V_INST" ->
                          LET esat == vtx_inst_satisfies_optional(g, dv, recurse, d - 1)
                          IN  IF esat = ABORTED THEN ABORTED ELSE fold(sat, esat)
                     [] g[dv].type = "V_SVC" -> optional_svc_loop(g, dv, recurse, d, 1, sat)
         IN  IF s1 = ABORTED
             THEN ABORTED
             ELSE optional_all_loop(g, v, recurse, d, n + 1, s1)

\* The inner loop of the kS16ExcludeAll case over the dependencies of the
\* Service dv, from edge n: it evaluates dv itself for every edge.
exclude_svc_loop(g, dv, n, sat) ==
    IF n > Len(g[dv].dependencies)
    THEN sat
    ELSE LET esat == vtx_inst_satisfies_exclusion(g, dv)
         IN  IF esat = ABORTED
             THEN ABORTED
             ELSE exclude_svc_loop(g, dv, n + 1, fold(sat, esat))

exclude_all_loop(g, v, recurse, n, sat) ==
    IF n > Len(g[v].dependencies)
    THEN sat
    ELSE LET dv == g[v].dependencies[n]
             s1 == CASE g[dv].type = "V_DEPGROUP" -> ABORTED
                     [] g[dv].type = "V_INST" ->
                          LET esat == vtx_inst_satisfies_exclusion(g, dv)
                          IN  IF esat = ABORTED THEN ABORTED ELSE fold(sat, esat)
                     [] g[dv].type = "V_SVC" -> exclude_svc_loop(g, dv, 1, sat)
         IN  IF s1 = ABORTED
             THEN ABORTED
             ELSE exclude_all_loop(g, v, recurse, n + 1, s1)

depgroup_is_satisfied(g, v, recurse, d) ==
    IF d < 0 THEN ABORTED
    ELSE CASE g[v].dg_type = "kS16RequireAll" ->
                require_all_loop(g, v, recurse, d, 1, SATISFIED)
           [] g[v].dg_type = "kS16RequireAny" ->
                IF Len(g[v].dependencies) = 0
                THEN SATISFIED
                ELSE require_any_loop(g, v, recurse, d, 1, ToBool(UNSATISFIABLE))
           [] g[v].dg_type = "kS16OptionalAll" ->
                optional_all_loop(g, v, recurse, d, 1, SATISFIED)
           [] g[v].dg_type = "kS16ExcludeAll" ->
                exclude_all_loop(g, v, recurse, 1, SATISFIED)

\* vtx_inst_can_come_up: "yes", "no", or "abort" when the evaluation of the
\* groups aborts.
vtx_inst_can_come_up(g, v) ==
    IF ~(g[v].is_enabled /\ ~g[v].to_offline /\ ~g[v].to_disable)
    THEN "no"
    ELSE LET dsat == depgroup_is_satisfied(g, v, TRUE, Depth(g))
         IN  IF dsat = ABORTED THEN "abort"
             ELSE IF dsat = SATISFIED THEN "yes" ELSE "no"

(***************************************************************************)
(* Propagation engine.  The handlers work on a context: the vertex list g, *)
(* the note queue and abort.  They recurse along the edges without a       *)
(* visited set, so they carry the depth d like the evaluator.  A handler   *)
(* calls itself along an edge whatever the flags and states it has set on  *)
(* the way, so one that descends more edges than the graph has vertices    *)
(* has come back to a vertex and never returns.                            *)
(***************************************************************************)
Hops(g) == Len(g)

s16note_new(note_type, type, path, reason) ==
    [note_type |-> note_type, type |-> type, path |-> path, reason |-> reason]

\* sunk: the build reads v->to_offline where vtx_process_state_change uses
\* it (in the SC_OFFLINE case) and not at the head of the function.
NoteCtx(g, q) == [g |-> g, notes |-> q, abort |-> FALSE, sunk |-> FALSE]

s16note_list_add(ctx, note) == [ctx EXCEPT !.notes = Append(@, note)]

vtx_online(ctx, v, reason) ==
    s16note_list_add(ctx, s16note_new("N_STATE_CHANGE", "SC_ONLINE", ctx.g[v].path, reason))

\* An offline that writes the state instead of sending the note.
vtx_offline_direct(ctx, v, reason) == [ctx EXCEPT !.g[v].state = "Offline"]

vtx_offline(ctx, v, reason) ==
    s16note_list_add(ctx, s16note_new("N_STATE_CHANGE", "SC_OFFLINE", ctx.g[v].path, reason))

\* An enable that sends no note.
vtx_enable_silent(ctx, v) == ctx

vtx_enable(ctx, v) ==
    s16note_list_add(ctx, s16note_new("N_STATE_CHANGE", "SC_OFFLINE", ctx.g[v].path,
                                      kS16RestartOnRestart))

\* A disable that sends no note.
vtx_disable_silent(ctx, v, reason) == ctx

vtx_disable(ctx, v, reason) ==
    s16note_list_add(ctx, s16note_new("N_STATE_CHANGE", "SC_DISABLED", ctx.g[v].path, reason))

RECURSIVE vtx_notify_start(_, _, _, _)
RECURSIVE vtx_notify_start_loop(_, _, _, _, _)
RECURSIVE vtx_notify_stop(_, _, _, _)
RECURSIVE vtx_notify_stop_loop(_, _, _, _, _)
RECURSIVE vtx_notify_misc(_, _, _, _)
RECURSIVE vtx_notify_misc_loop(_, _, _, _, _)
RECURSIVE vtx_notify_admin_disable(_, _, _, _)
RECURSIVE vtx_notify_admin_disable_loop(_, _, _, _, _)
RECURSIVE vtx_can_go_down(_, _, _, _)
RECURSIVE vtx_can_go_down_loop(_, _, _, _)
RECURSIVE vtx_offline_dependency(_, _, _, _)
RECURSIVE vtx_offline_dependency_loop(_, _, _, _, _)

\* vtx_dependents_do (v, vtx_notify_start, reason), from edge n.
vtx_notify_start_loop(ctx, v, reason, d, n) ==
    IF ctx.abort \/ n > Len(ctx.g[v].dependents)
    THEN ctx
    ELSE vtx_notify_start_loop(vtx_notify_start(ctx, ctx.g[v].dependents[n], reason, d - 1),
                               v, reason, d, n + 1)

\* vtx_notify_start without the test of vtx_is_running.
vtx_notify_start_running(ctx, v, reason, d) ==
    IF d < 0 THEN [ctx EXCEPT !.abort = TRUE]
    ELSE IF ctx.g[v].type = "V_INST"
    THEN LET up == vtx_inst_can_come_up(ctx.g, v)
         IN  IF up = "abort" THEN [ctx EXCEPT !.abort = TRUE]
             ELSE IF up = "yes"
             THEN s16note_list_add(ctx, s16note_new("N_STATE_CHANGE", "SC_ONLINE",
                                                    ctx.g[v].path, 0))
             ELSE ctx
    ELSE vtx_notify_start_loop(ctx, v, ctx.g[v].restart_on, d, 1)

vtx_notify_start(ctx, v, reason, d) ==
    IF d < 0 THEN [ctx EXCEPT !.abort = TRUE]
    ELSE IF ctx.g[v].type = "V_INST"
    THEN LET up == vtx_inst_can_come_up(ctx.g, v)
         IN  IF up = "abort" THEN [ctx EXCEPT !.abort = TRUE]
             ELSE IF up = "yes" /\ ~vtx_is_running(ctx.g, v)
             THEN s16note_list_add(ctx, s16note_new("N_STATE_CHANGE", "SC_ONLINE",
                                                    ctx.g[v].path, 0))
             ELSE ctx
    ELSE vtx_notify_start_loop(ctx, v, ctx.g[v].restart_on, d, 1)

\* vtx_dependents_do (v, vtx_notify_stop, reason), from edge n.
vtx_notify_stop_loop(ctx, v, reason, d, n) ==
    IF ctx.abort \/ n > Len(ctx.g[v].dependents)
    THEN ctx
    ELSE vtx_notify_stop_loop(vtx_notify_stop(ctx, ctx.g[v].dependents[n], reason, d - 1),
                              v, reason, d, n + 1)

\* vtx_notify_stop without the comparison of restart_on with the reason.
vtx_notify_stop_any(ctx, v, reason, d) ==
    IF d < 0 THEN [ctx EXCEPT !.abort = TRUE]
    ELSE CASE ctx.g[v].type = "V_INST" ->
                IF ~vtx_is_running(ctx.g, v)
                THEN ctx
                ELSE s16note_list_add(ctx, s16note_new("N_STATE_CHANGE", "SC_OFFLINE",
                                                       ctx.g[v].path, reason))
           [] ctx.g[v].type = "V_DEPGROUP" ->
                IF ctx.g[v].dg_type = "kS16ExcludeAll" THEN ctx
                ELSE vtx_notify_stop_loop(ctx, v, reason, d, 1)
           [] ctx.g[v].type = "V_SVC" -> vtx_notify_stop_loop(ctx, v, reason, d, 1)

vtx_notify_stop(ctx, v, reason, d) ==
    IF d < 0 THEN [ctx EXCEPT !.abort = TRUE]
    ELSE CASE ctx.g[v].type = "V_INST" ->
                IF ~vtx_is_running(ctx.g, v)
                THEN ctx
                ELSE s16note_list_add(ctx, s16note_new("N_STATE_CHANGE", "SC_OFFLINE",
                                                       ctx.g[v].path, reason))
           [] ctx.g[v].type = "V_DEPGROUP" ->
                IF ctx.g[v].dg_type = "kS16ExcludeAll" THEN ctx
                ELSE IF ctx.g[v].restart_on < reason THEN ctx
                ELSE vtx_notify_stop_loop(ctx, v, reason, d, 1)
           [] ctx.g[v].type = "V_SVC" -> vtx_notify_stop_loop(ctx, v, reason, d, 1)

\* vtx_dependents_do (v, vtx_notify_misc, reason), from edge n.
vtx_notify_misc_loop(ctx, v, reason, d, n) ==
    IF ctx.abort \/ n > Len(ctx.g[v].dependents)
    THEN ctx
    ELSE vtx_notify_misc_loop(vtx_notify_misc(ctx, ctx.g[v].dependents[n], reason, d - 1),
                              v, reason, d, n + 1)

vtx_notify_misc(ctx, v, reason, d) ==
    IF d < 0 THEN [ctx EXCEPT !.abort = TRUE]
    ELSE LET up == IF ctx.g[v].type = "V_INST" THEN vtx_inst_can_come_up(ctx.g, v) ELSE "no"
             c1 == IF up = "yes" /\ ~vtx_is_running(ctx.g, v)
                   THEN vtx_online(ctx, v, reason)
                   ELSE ctx
         IN  IF up = "abort"
             THEN [ctx EXCEPT !.abort = TRUE]
             ELSE vtx_notify_misc_loop(c1, v, reason, d, 1)

\* vtx_dependents_do (v, vtx_notify_admin_disable, reason), from edge n.
vtx_notify_admin_disable_loop(ctx, v, reason, d, n) ==
    IF ctx.abort \/ n > Len(ctx.g[v].dependents)
    THEN ctx
    ELSE vtx_notify_admin_disable_loop(
             vtx_notify_admin_disable(ctx, ctx.g[v].dependents[n], reason, d - 1),
             v, reason, d, n + 1)

\* vtx_notify_admin_disable that passes the groups with restart_on Error.
vtx_notify_admin_disable_error(ctx, v, reason, d) ==
    IF d < 0 THEN [ctx EXCEPT !.abort = TRUE]
    ELSE CASE ctx.g[v].type = "V_INST" ->
                vtx_notify_admin_disable_loop([ctx EXCEPT !.g[v].to_offline = TRUE],
                                              v, reason, d, 1)
           [] ctx.g[v].type = "V_DEPGROUP" ->
                IF \/ ctx.g[v].dg_type = "kS16ExcludeAll"
                   \/ ctx.g[v].restart_on = kS16RestartOnNone
                THEN ctx
                ELSE vtx_notify_admin_disable_loop(ctx, v, reason, d, 1)
           [] ctx.g[v].type = "V_SVC" -> vtx_notify_admin_disable_loop(ctx, v, reason, d, 1)

vtx_notify_admin_disable(ctx, v, reason, d) ==
    IF d < 0 THEN [ctx EXCEPT !.abort = TRUE]
    ELSE CASE ctx.g[v].type = "V_INST" ->
                vtx_notify_admin_disable_loop([ctx EXCEPT !.g[v].to_offline = TRUE],
                                              v, reason, d, 1)
           [] ctx.g[v].type = "V_DEPGROUP" ->
                IF \/ ctx.g[v].dg_type = "kS16ExcludeAll"
                   \/ ctx.g[v].restart_on = kS16RestartOnNone
                   \/ ctx.g[v].restart_on = kS16RestartOnError
                THEN ctx
                ELSE vtx_notify_admin_disable_loop(ctx, v, reason, d, 1)
           [] ctx.g[v].type = "V_SVC" -> vtx_notify_admin_disable_loop(ctx, v, reason, d, 1)

\* A vtx_can_go_down that never looks at the dependents.
vtx_can_go_down_blind(g, v, root, d) ==
    IF d < 0 THEN "abort" ELSE "yes"

\* The loop of vtx_can_go_down over the dependents of v, from edge n: "no"
\* when it returns false, "yes" when it ends.
vtx_can_go_down_loop(g, v, d, n) ==
    IF n > Len(g[v].dependents)
    THEN "yes"
    ELSE LET to == g[v].dependents[n]
         IN  IF g[to].type = "V_INST" /\ ~g[to].to_offline
             THEN vtx_can_go_down_loop(g, v, d, n + 1)
             ELSE LET down == vtx_can_go_down(g, to, FALSE, d - 1)
                  IN  IF down # "yes"
                      THEN down
                      ELSE vtx_can_go_down_loop(g, v, d, n + 1)

\* vtx_can_go_down: "yes", "no", or "abort".
vtx_can_go_down(g, v, root, d) ==
    IF d < 0 THEN "abort"
    ELSE LET down == vtx_can_go_down_loop(g, v, d, 1)
         IN  IF down # "yes" THEN down
             ELSE IF g[v].type = "V_INST" /\ vtx_is_running(g, v) /\ ~root THEN "no"
             ELSE "yes"

vtx_offline_if_possible(ctx, v, reason) ==
    IF ~ctx.g[v].to_offline THEN ctx
    ELSE IF ctx.g[v].type = "V_INST"
    THEN LET down == vtx_can_go_down(ctx.g, v, TRUE, Hops(ctx.g))
         IN  IF down = "abort" THEN [ctx EXCEPT !.abort = TRUE]
             ELSE IF down = "yes" THEN vtx_offline(ctx, v, reason)
             ELSE ctx
    ELSE ctx

\* vtx_dependencies_do (v, vtx_offline_dependency, reason), from edge n.
vtx_offline_dependency_loop(ctx, v, reason, d, n) ==
    IF ctx.abort \/ n > Len(ctx.g[v].dependencies)
    THEN ctx
    ELSE vtx_offline_dependency_loop(
             vtx_offline_dependency(ctx, ctx.g[v].dependencies[n], reason, d - 1),
             v, reason, d, n + 1)

vtx_offline_dependency(ctx, v, reason, d) ==
    IF d < 0 THEN [ctx EXCEPT !.abort = TRUE]
    ELSE IF ctx.g[v].type = "V_INST" /\ ~ctx.g[v].to_offline THEN ctx
    ELSE IF ctx.g[v].type = "V_INST"
    THEN LET down == vtx_can_go_down(ctx.g, v, TRUE, Hops(ctx.g))
         IN  IF down = "abort" THEN [ctx EXCEPT !.abort = TRUE]
             ELSE IF down = "yes" THEN vtx_offline(ctx, v, reason)
             ELSE ctx
    ELSE vtx_offline_dependency_loop(ctx, v, reason, d, 1)

\* The loop of the A_DISABLE case over the vertex list, from vertex n.
RECURSIVE offline_scan(_, _)
offline_scan(ctx, n) ==
    IF ctx.abort \/ n > Len(ctx.g)
    THEN ctx
    ELSE offline_scan(vtx_offline_if_possible(ctx, n, kS16RestartOnRestart), n + 1)

vtx_process_admin_req(ctx, v, type, reason) ==
    CASE type \in {"A_DISABLE", "A_ENABLE"} /\ v = 0 -> [ctx EXCEPT !.abort = TRUE]
      [] type = "A_DISABLE" ->
            LET c1 == [ctx EXCEPT !.g[v].to_disable = TRUE, !.g[v].to_offline = TRUE,
                                  !.g[v].is_enabled = FALSE]
                c2 == vtx_notify_admin_disable_loop(c1, v, reason, Hops(ctx.g), 1)
            IN  IF c2.abort THEN c2
                ELSE IF vtx_can_go_down(c2.g, v, TRUE, Hops(ctx.g)) = "abort"
                THEN [c2 EXCEPT !.abort = TRUE]
                ELSE offline_scan(c2, 1)
      [] type = "A_ENABLE" ->
            vtx_enable([ctx EXCEPT !.g[v].to_disable = FALSE, !.g[v].to_offline = FALSE,
                                   !.g[v].is_enabled = TRUE], v)
      [] OTHER -> ctx

\* The read of v->to_offline at the head of the function is of a NULL
\* vertex when the path has none: undefined, and the process ends there
\* unless the build has sunk the read into the one case that uses it and
\* the note's type is not handled.
vtx_process_state_change(ctx, v, type, reason) ==
    LET to_offline == ctx.g[v].to_offline
    IN  CASE v = 0 ->
                IF ctx.sunk /\ type \notin {"SC_ONLINE", "SC_OFFLINE", "SC_DISABLED"}
                THEN ctx
                ELSE [ctx EXCEPT !.abort = TRUE]
          [] type = "SC_ONLINE" ->
                vtx_notify_start_loop([ctx EXCEPT !.g[v].state = "Online"],
                                      v, reason, Hops(ctx.g), 1)
          [] type = "SC_OFFLINE" ->
                LET c1 == [ctx EXCEPT !.g[v].state = "Offline", !.g[v].to_offline = FALSE]
                    c2 == IF to_offline
                          THEN LET c3 == vtx_offline_dependency_loop(c1, v, reason,
                                                                     Hops(ctx.g), 1)
                               IN  IF c3.abort THEN c3
                                   ELSE IF c3.g[v].to_disable
                                   THEN vtx_disable(c3, v, reason)
                                   ELSE c3
                          ELSE LET up == vtx_inst_can_come_up(c1.g, v)
                               IN  IF up = "abort" THEN [c1 EXCEPT !.abort = TRUE]
                                   ELSE IF up = "yes" THEN vtx_online(c1, v, reason)
                                   ELSE c1
                IN  IF c2.abort THEN c2
                    ELSE vtx_notify_stop_loop(c2, v, reason, Hops(ctx.g), 1)
          [] type = "SC_DISABLED" ->
                vtx_notify_misc_loop([ctx EXCEPT !.g[v].to_offline = FALSE,
                                                 !.g[v].to_disable = FALSE,
                                                 !.g[v].state = "Disabled"],
                                     v, reason, Hops(ctx.g), 1)
          [] OTHER -> ctx

\* graph_process_note.  The vertex of the note's path is looked up and
\* handed to the handler, NULL (0) when the path has no vertex: a handler
\* that dereferences it ends the process, one that only logs returns.  A
\* note of another note_type is logged.
graph_process_note(ctx, note) ==
    LET v == vtx_find_by_path(ctx.g, note.path)
    IN  IF note.note_type = "N_ADMIN_REQ"
        THEN vtx_process_admin_req(ctx, v, note.type, note.reason)
        ELSE IF note.note_type = "N_STATE_CHANGE"
        THEN vtx_process_state_change(ctx, v, note.type, note.reason)
        ELSE ctx

\* The second loop of graph_setup_all, from vertex n.
RECURSIVE graph_setup_all_notify(_, _)
graph_setup_all_notify(ctx, n) ==
    IF ctx.abort \/ n > Len(ctx.g)
    THEN ctx
    ELSE LET up == IF ctx.g[n].type = "V_INST" THEN vtx_inst_can_come_up(ctx.g, n) ELSE "no"
         IN  IF up = "abort" THEN [ctx EXCEPT !.abort = TRUE]
             ELSE IF up = "yes"
             THEN graph_setup_all_notify(
                      s16note_list_add(ctx, s16note_new("N_STATE_CHANGE", "SC_OFFLINE",
                                                        ctx.g[n].path, 0)), n + 1)
             ELSE graph_setup_all_notify(ctx, n + 1)

\* The one member of a set of one member.
Sole(S) == CHOOSE x \in S : TRUE

\* processNotes: the notes are popped from the head and processed until the
\* queue is empty; of a run of more than fuel notes the rest stays queued.
RECURSIVE processNotes(_, _)
processNotes(ctx, fuel) ==
    IF ctx.abort \/ ctx.notes = <<>> \/ fuel = 0
    THEN ctx
    ELSE Sole({processNotes(c, fuel - 1) :
                  c \in {graph_process_note([ctx EXCEPT !.notes = Tail(@)],
                                            Head(ctx.notes))}})

MaxRun == 24      \* notes one processNotes of graph_setup_all processes

\* a note of graph_setup_all is added and the queue processed
graph_setup_all_note(ctx, note_type, type, path, reason) ==
    IF ctx.abort \/ ctx.notes # <<>>
    THEN ctx
    ELSE processNotes(s16note_list_add(ctx, s16note_new(note_type, type, path, reason)),
                      MaxRun)

\* print_all: every vertex is printed; for a Service vertex the text
\* depends on depgroup_is_satisfied (v, false), and the process ends where
\* that evaluation runs into a failing assert().
print_all(ctx) ==
    IF ctx.abort \/ ctx.notes # <<>>
    THEN ctx
    ELSE IF \E v \in 1..Len(ctx.g) :
              /\ ctx.g[v].type = "V_SVC"
              /\ depgroup_is_satisfied(ctx.g, v, FALSE, Depth(ctx.g)) = ABORTED
    THEN [ctx EXCEPT !.abort = TRUE]
    ELSE ctx

\* graph_setup_all after its first loop: SC_OFFLINE to every instance that
\* can come up, and then A_DISABLE, A_ENABLE and SC_OFFLINE for a:i, the
\* queue processed after each, and print_all.
graph_setup_all_notes(g, q) ==
    Sole({print_all(n4) :
     n4 \in {
      Sole({Sole({Sole({Sole({graph_setup_all_note(n3, "N_STATE_CHANGE", "SC_OFFLINE",
                                                   S16PathNew("a", "i"), kS16RestartOnNone) :
                                 n3 \in {graph_setup_all_note(n2, "N_ADMIN_REQ", "A_ENABLE",
                                                              S16PathNew("a", "i"),
                                                              kS16RestartOnNone)}}) :
                           n2 \in {graph_setup_all_note(n1, "N_ADMIN_REQ", "A_DISABLE",
                                                        S16PathNew("a", "i"),
                                                        kS16RestartOnNone)}}) :
                     n1 \in {processNotes(n0, MaxRun)}}) :
               n0 \in {graph_setup_all_notify(NoteCtx(g, q), 1)}})}})

\* graph_setup_all: vtx_setup of every vertex, then the notes and
\* print_all.  The result is the builder's context with the queue; a queue
\* that is not empty is of a run cut short.
graph_setup_all(rp, ctx, q) ==
    Sole({IF c1.abort
          THEN [g |-> c1.g, notes |-> q, abort |-> TRUE, log |-> c1.log]
          ELSE Sole({[g |-> n4.g, notes |-> n4.notes, abort |-> n4.abort, log |-> c1.log] :
                        n4 \in {graph_setup_all_notes(c1.g, q)}}) :
             c1 \in {graph_setup_all_pass(rp, ctx, 1)}})

(***************************************************************************)
(* Repositories.  A repository maps every service and instance path to     *)
(* the sequence of its declared dependency groups.  A bounded family of    *)
(* repositories is generated from the sequences of at most n declaration   *)
(* entries; an entry opens a new group of its owner with one target, or    *)
(* adds a target to the owner's last group.                                *)
(***************************************************************************)
Declarers == InstPaths \cup {SvcPath(s) : s \in Services}

EmptyRepo(insts) == [insts |-> insts, groups |-> [p \in Declarers |-> <<>>]]

\* The S16Service of the repository: its path and its instance names.
Service(rp, s) == [path |-> SvcPath(s), insts |-> rp.insts[s]]

Entries(owners, kinds, restarts, targets) ==
    [owner : owners, kind : kinds \cup {"more"}, restart_on : restarts, target : targets]

ApplyEntry(rp, e) ==
    LET gs == rp.groups[e.owner]
    IN  IF e.kind = "more"
        THEN IF Len(gs) = 0
             THEN rp
             ELSE [rp EXCEPT !.groups[e.owner][Len(gs)].paths = Append(@, e.target)]
        ELSE [rp EXCEPT !.groups[e.owner] =
                 Append(@, [type |-> e.kind, restart_on |-> e.restart_on,
                            paths |-> <<e.target>>])]

RECURSIVE ApplyEntries(_, _, _)
ApplyEntries(rp, es, n) ==
    IF n > Len(es) THEN rp ELSE ApplyEntries(ApplyEntry(rp, es[n]), es, n + 1)

RepoFamily(insts, entries, n) ==
    {ApplyEntries(EmptyRepo(insts), es, 1) : es \in UNION {[1..k -> entries] : k \in 0..n}}

\* Instances a:i and b:j declare groups over the other instances (an
\* ExcludeAll group excludes c:k), and service a declares RequireAll [c:k].
BuildEntries ==
    {e \in Entries({PathAI, PathBJ, SvcPath("a")}, {"kS16RequireAll", "kS16ExcludeAll"},
                   {kS16RestartOnAny}, {PathAI, PathBJ, PathCK}) :
        /\ e.target # e.owner
        /\ e.kind = "kS16ExcludeAll" => e.target = PathCK
        /\ e.owner = SvcPath("a") => (e.kind = "kS16RequireAll" /\ e.target = PathCK)}

BuildRepos == RepoFamily(InstsOne, BuildEntries, MaxDecl)

\* lastOp: the operation, its arguments, whether the service was installed
\* before (install), and the vertex list before it (a note entering the queue).
NoOp ==
    [op |-> "init", path |-> S16PathNew("", ""), type |-> "", reason |-> 0,
     again |-> FALSE, pre |-> <<>>]

NoResult == [done |-> FALSE, sat |-> <<>>, agg |-> <<>>]

(***************************************************************************)
(* The builder's specification: graph_install_service and vtx_setup are    *)
(* called in any order, for any service and any vertex.                    *)
(***************************************************************************)
InitBuild ==
    /\ repo \in BuildRepos
    /\ graph = <<>>
    /\ notes = <<>>
    /\ aborted = FALSE
    /\ addLog = <<>>
    /\ lastOp = NoOp
    /\ units = <<>>
    /\ ts = {}
    /\ pt = {}
    /\ result = NoResult

\* graph_install_service of any service of the repository, installed
\* before or not.
InstallService(s) ==
    /\ ~aborted
    /\ graph' = graph_install_service(graph, Service(repo, s))
    /\ lastOp' = [NoOp EXCEPT !.op = "install", !.path = SvcPath(s),
                              !.again = (vtx_find_by_path(graph, SvcPath(s)) # 0)]
    /\ addLog' = <<>>
    /\ UNCHANGED <<units, ts, pt, repo, notes, aborted, result>>

\* vtx_setup of a vertex that is not set up (of one that is, it returns at once).
VtxSetup(v) ==
    /\ ~aborted
    /\ ~graph[v].is_setup
    /\ \E checked \in BOOLEAN :
          LET c == vtx_setup(repo, BuildCtx(graph, checked), v)
          IN  /\ aborted' = c.abort
              /\ graph' = IF c.abort THEN graph ELSE c.g
              /\ addLog' = IF c.abort THEN <<>> ELSE c.log
    /\ lastOp' = [NoOp EXCEPT !.op = "setup", !.path = graph[v].path]
    /\ UNCHANGED <<units, ts, pt, repo, notes, result>>

NextBuild ==
    \/ \E s \in Services : InstallService(s)
    \/ \E v \in 1..Len(graph) : VtxSetup(v)

SpecBuild == InitBuild /\ [][NextBuild]_vars

(***************************************************************************)
(* The builder with graph_setup_all: services are installed, vertices set  *)
(* up and graph_setup_all called in any order.  Instance a:i declares      *)
(* groups over b:j, and service a may require c:k.                         *)
(***************************************************************************)
MaxSetupDecl == 2

SetupEntries ==
    {e \in Entries({PathAI, SvcPath("a")}, {"kS16RequireAll", "kS16ExcludeAll"},
                   {kS16RestartOnAny}, {PathBJ, PathCK}) :
        /\ e.kind # "more"
        /\ e.owner = PathAI => e.target = PathBJ
        /\ e.owner = SvcPath("a") => (e.kind = "kS16RequireAll" /\ e.target = PathCK)}

SetupRepos == RepoFamily(InstsOne, SetupEntries, MaxSetupDecl)

InitSetup ==
    /\ repo \in SetupRepos
    /\ graph = <<>>
    /\ notes = <<>>
    /\ aborted = FALSE
    /\ addLog = <<>>
    /\ lastOp = NoOp
    /\ units = <<>>
    /\ ts = {}
    /\ pt = {}
    /\ result = NoResult

\* graph_setup_all, from its first loop to print_all.
GraphSetupAll ==
    /\ ~aborted
    /\ \E checked \in BOOLEAN :
          \E c \in {graph_setup_all(repo, BuildCtx(graph, checked), notes)} :
              /\ c.abort \/ c.notes = <<>>
              /\ aborted' = c.abort
              /\ graph' = IF c.abort THEN graph ELSE c.g
              /\ notes' = IF c.abort THEN notes ELSE c.notes
              /\ addLog' = IF c.abort THEN <<>> ELSE c.log
    /\ lastOp' = [NoOp EXCEPT !.op = "setup_all", !.pre = graph]
    /\ UNCHANGED <<units, ts, pt, repo, result>>

NextSetup ==
    \/ \E s \in Services : InstallService(s)
    \/ \E v \in 1..Len(graph) : VtxSetup(v)
    \/ GraphSetupAll

SpecSetup == InitSetup /\ [][NextSetup]_vars

(***************************************************************************)
(* The graph the daemon has constructed, and the evaluator applied to      *)
(* every vertex of a graph.                                                *)
(***************************************************************************)
RECURSIVE InstallAll(_, _, _)
InstallAll(rp, g, n) ==
    IF n > Len(ServiceOrder)
    THEN g
    ELSE InstallAll(rp, graph_install_service(g, Service(rp, ServiceOrder[n])), n + 1)

\* The builder's context after every service is installed and every vertex
\* set up.
BuiltGraph(rp, checked) ==
    graph_setup_all_pass(rp, BuildCtx(InstallAll(rp, <<>>, 1), checked), 1)

\* The daemon has built the graph of repository rp, or has ended in the
\* attempt.
Constructed(rp) ==
    \E checked \in BOOLEAN :
        LET c == BuiltGraph(rp, checked)
        IN  /\ aborted = c.abort
            /\ graph = IF c.abort THEN InstallAll(rp, <<>>, 1) ELSE c.g

\* Instance a:i declares the groups, of every kind, over b:j, c:k and the
\* service c; b:j may require c:k.
SatEntries ==
    {e \in Entries({PathAI, PathBJ}, GroupKinds, {kS16RestartOnAny},
                   {PathBJ, PathCK, SvcPath("c")}) :
        e.owner = PathBJ => (e.kind = "kS16RequireAll" /\ e.target = PathCK)}

SatRepos == RepoFamily(InstsTwo, SatEntries, MaxSatDecl)

InitSat ==
    /\ repo \in SatRepos
    /\ Constructed(repo)
    /\ notes = <<>>
    /\ addLog = <<>>
    /\ lastOp = NoOp
    /\ units = <<>>
    /\ ts = {}
    /\ pt = {}
    /\ result = NoResult

R(recurse) == IF recurse THEN 2 ELSE 1

\* vtx_satisfies and depgroup_is_satisfied of every vertex, with and without
\* recursion.
Evaluation(g) ==
    [done |-> TRUE,
     sat |-> [n \in 1..Len(g) |->
                <<vtx_satisfies(g, n, FALSE, Depth(g)),
                  vtx_satisfies(g, n, TRUE, Depth(g))>>],
     agg |-> [n \in 1..Len(g) |->
                <<depgroup_is_satisfied(g, n, FALSE, Depth(g)),
                  depgroup_is_satisfied(g, n, TRUE, Depth(g))>>]]

(***************************************************************************)
(* The propagation engine's specification: in a graph that was installed   *)
(* and set up, graph_setup_all sends the instances that can come up their  *)
(* first note; then, whenever the queue is empty, an administrative        *)
(* request or an observed state change enters it, and the notes are        *)
(* processed from the head until the queue is empty again.                 *)
(***************************************************************************)
\* a:i declares groups over b:j, c:k and the service b (a RequireAll group
\* with restart_on Error or Any), and c:k may require a:i.
NoteEntries ==
    {e \in Entries({PathAI, PathCK}, GroupKinds, {kS16RestartOnError, kS16RestartOnAny},
                   {PathAI, PathBJ, PathCK, SvcPath("b")}) :
        /\ e.owner = PathAI => e.target # PathAI
        /\ (e.owner = PathAI /\ e.kind # "kS16RequireAll") => e.restart_on = kS16RestartOnAny
        /\ e.target = SvcPath("b") => (e.kind = "kS16RequireAll"
                                          /\ e.restart_on = kS16RestartOnAny)
        /\ e.owner = PathCK => /\ e.kind = "kS16RequireAll"
                               /\ e.target = PathAI
                               /\ e.restart_on = kS16RestartOnAny}

\* Where a:i declares more than one target, its first group is over b:j or
\* the service b, and the second target, of the same group or of a second
\* group (RequireAll or ExcludeAll), is c:k.
NoteShape(rp) ==
    LET ga == rp.groups[PathAI]
    IN  /\ Len(ga) >= 1 => Len(ga[1].paths) <= 2
        /\ (Len(ga) >= 1 /\ Len(ga[1].paths) = 2) =>
               (ga[1].paths[1] = PathBJ /\ ga[1].paths[2] = PathCK)
        /\ Len(ga) >= 2 =>
               /\ ga[1].paths[1] \in {PathBJ, SvcPath("b")}
               /\ ga[2].paths = <<PathCK>>
               /\ ga[2].type \in {"kS16RequireAll", "kS16ExcludeAll"}
               /\ ga[2].restart_on = kS16RestartOnAny

NoteRepos == {rp \in RepoFamily(InstsOne, NoteEntries, MaxNoteDecl) : NoteShape(rp)}

InitNotes ==
    /\ repo \in NoteRepos
    /\ Constructed(repo)
    /\ notes = <<>>
    /\ addLog = <<>>
    /\ lastOp = NoOp
    /\ units = <<>>
    /\ ts = {}
    /\ pt = {}
    /\ result = NoResult

GraphSetupAllNotify ==
    /\ ~aborted
    /\ lastOp.op = "init"
    /\ LET c == graph_setup_all_notify(NoteCtx(graph, notes), 1)
       IN  /\ aborted' = c.abort
           /\ notes' = IF c.abort THEN notes ELSE c.notes
    /\ lastOp' = [NoOp EXCEPT !.op = "setup_all"]
    /\ UNCHANGED <<units, ts, pt, repo, graph, addLog, result>>

AdminNotes ==
    {s16note_new("N_ADMIN_REQ", t, p, r) :
        t \in {"A_DISABLE", "A_ENABLE"}, p \in InstPaths, r \in {kS16RestartOnNone}}

\* The notes graph_setup_all adds after its first processNotes.
GraphSetupAllNotes ==
    {s16note_new("N_ADMIN_REQ", "A_DISABLE", S16PathNew("a", "i"), kS16RestartOnNone),
     s16note_new("N_ADMIN_REQ", "A_ENABLE", S16PathNew("a", "i"), kS16RestartOnNone),
     s16note_new("N_STATE_CHANGE", "SC_OFFLINE", S16PathNew("a", "i"), kS16RestartOnNone)}

StateChangeNotes ==
    {s16note_new("N_STATE_CHANGE", "SC_OFFLINE", p, r) :
        p \in InstPaths, r \in {kS16RestartOnNone, kS16RestartOnError, kS16RestartOnRestart}}
    \cup {s16note_new("N_STATE_CHANGE", "SC_ONLINE", p, 0) : p \in InstPaths}

\* A note enters the empty queue.
Inject(note) ==
    /\ ~aborted
    /\ lastOp.op # "init"
    /\ notes = <<>>
    /\ vtx_find_by_path(graph, note.path) # 0
    /\ notes' = <<note>>
    /\ lastOp' = [NoOp EXCEPT !.op = "note", !.path = note.path, !.type = note.type,
                              !.reason = note.reason, !.pre = graph]
    /\ UNCHANGED <<units, ts, pt, repo, graph, aborted, addLog, result>>

\* processNotes: the head of the queue is popped and processed.  An
\* evaluation is of the graph as it was, and is dropped.
ProcessNote ==
    /\ ~aborted
    /\ notes # <<>>
    /\ \E sunk \in BOOLEAN :
          LET c == graph_process_note([NoteCtx(graph, Tail(notes)) EXCEPT !.sunk = sunk],
                                      Head(notes))
          IN  /\ Len(c.notes) <= MaxQueue
              /\ aborted' = c.abort
              /\ graph' = IF c.abort THEN graph ELSE c.g
              /\ notes' = IF c.abort THEN notes ELSE c.notes
    /\ result' = NoResult
    /\ UNCHANGED <<units, ts, pt, repo, addLog, lastOp>>

NextNotes ==
    \/ GraphSetupAllNotify
    \/ \E note \in AdminNotes \cup StateChangeNotes : Inject(note)
    \/ ProcessNote

SpecNotes == InitNotes /\ [][NextNotes]_vars

(***************************************************************************)
(* The evaluator's specification: the propagation engine runs on the       *)
(* repositories of the evaluator, and in any state it reaches, between two *)
(* notes as well, every vertex is evaluated.                               *)
(***************************************************************************)
\* The evaluator is applied to every vertex of the graph as it is.
Evaluate ==
    /\ ~aborted
    /\ result' = Evaluation(graph)
    /\ UNCHANGED <<units, ts, pt, repo, graph, notes, aborted, addLog, lastOp>>

\* The notes of graph_setup_all, and the administrator disables and enables
\* b:j and c:k.
SatNotes == GraphSetupAllNotes \cup {n \in AdminNotes : n.path \in {PathBJ, PathCK}}

NextSat ==
    \/ GraphSetupAllNotify
    \/ \E note \in SatNotes : Inject(note)
    \/ ProcessNote
    \/ Evaluate

SpecSat == InitSat /\ [][NextSat]_vars

(***************************************************************************)
(* The propagation engine where a:i declares a group of any kind over b:j, *)
(* b:j may require c:k, and c:k may require c:l: an SC_ONLINE note that is *)
(* processed takes its instance from Offline to Online.                    *)
(***************************************************************************)
MaxMonoDecl == 3

MonoEntries ==
    {e \in Entries({PathAI, PathBJ, PathCK}, GroupKinds, {kS16RestartOnAny},
                   {PathBJ, PathCK, PathCL}) :
        /\ e.kind # "more"
        /\ e.owner = PathAI => e.target = PathBJ
        /\ e.owner = PathBJ => (e.kind = "kS16RequireAll" /\ e.target = PathCK)
        /\ e.owner = PathCK => (e.kind = "kS16RequireAll" /\ e.target = PathCL)}

MonoRepos == RepoFamily(InstsTwo, MonoEntries, MaxMonoDecl)

InitMono ==
    /\ repo \in MonoRepos
    /\ Constructed(repo)
    /\ notes = <<>>
    /\ addLog = <<>>
    /\ lastOp = NoOp
    /\ units = <<>>
    /\ ts = {}
    /\ pt = {}
    /\ result = NoResult

\* The notes of graph_setup_all; the administrator disables and enables
\* c:l, and b:j and c:k are reported online.
MonoNotes ==
    GraphSetupAllNotes
        \cup {n \in AdminNotes : n.path = PathCL}
        \cup {s16note_new("N_STATE_CHANGE", "SC_ONLINE", p, 0) : p \in {PathBJ, PathCK}}

NextMono ==
    \/ GraphSetupAllNotify
    \/ \E note \in MonoNotes : Inject(note)
    \/ ProcessNote

SpecMono == InitMono /\ [][NextMono]_vars

(***************************************************************************)
(* The propagation engine where an instance has two ways to come up: a:i   *)
(* declares a RequireAny group over b:j and c:k, and c:l may require a:i.  *)
(* graph_setup_all adds its notes for a:i, and the administrator disables  *)
(* and enables b:j and c:k.                                                *)
(***************************************************************************)
MaxDupDecl == 3

DupEntries ==
    {e \in Entries({PathAI, PathCL}, {"kS16RequireAny", "kS16RequireAll"},
                   {kS16RestartOnAny}, {PathAI, PathBJ, PathCK}) :
        /\ e.owner = PathAI => (e.kind # "kS16RequireAll" /\ e.target # PathAI)
        /\ e.owner = PathCL => (e.kind = "kS16RequireAll" /\ e.target = PathAI)}

DupRepos == RepoFamily(InstsTwo, DupEntries, MaxDupDecl)

InitDup ==
    /\ repo \in DupRepos
    /\ Constructed(repo)
    /\ notes = <<>>
    /\ addLog = <<>>
    /\ lastOp = NoOp
    /\ units = <<>>
    /\ ts = {}
    /\ pt = {}
    /\ result = NoResult

DupNotes == GraphSetupAllNotes \cup {n \in AdminNotes : n.path \in {PathBJ, PathCK}}

NextDup ==
    \/ GraphSetupAllNotify
    \/ \E note \in DupNotes : Inject(note)
    \/ ProcessNote

SpecDup == InitDup /\ [][NextDup]_vars

(***************************************************************************)
(* The propagation engine where lastOp remembers, for an A_ENABLE that     *)
(* follows the A_DISABLE of the same instance, that it does (again) and    *)
(* the vertex list before the A_DISABLE (pre).                             *)
(***************************************************************************)
Request(note) ==
    /\ ~aborted
    /\ lastOp.op # "init"
    /\ notes = <<>>
    /\ vtx_find_by_path(graph, note.path) # 0
    /\ notes' = <<note>>
    /\ LET follows == /\ note.type = "A_ENABLE"
                      /\ lastOp.op = "note"
                      /\ lastOp.type = "A_DISABLE"
                      /\ lastOp.path = note.path
       IN  lastOp' = [NoOp EXCEPT !.op = "note", !.path = note.path, !.type = note.type,
                                  !.reason = note.reason, !.again = follows,
                                  !.pre = IF follows THEN lastOp.pre ELSE graph]
    /\ UNCHANGED <<units, ts, pt, repo, graph, aborted, addLog, result>>

NextTrip ==
    \/ GraphSetupAllNotify
    \/ \E note \in AdminNotes \cup StateChangeNotes : Request(note)
    \/ ProcessNote

SpecTrip == InitNotes /\ [][NextTrip]_vars

(***************************************************************************)
(* The propagation engine where a:i and b:j declare groups over each       *)
(* other, ExcludeAll groups among them.                                    *)
(***************************************************************************)
MaxExclDecl == 2

ExclEntries ==
    {e \in Entries({PathAI, PathBJ}, {"kS16ExcludeAll", "kS16RequireAll"},
                   {kS16RestartOnAny}, {PathAI, PathBJ}) :
        e.kind # "more" /\ e.target # e.owner}

ExclRepos == RepoFamily(InstsOne, ExclEntries, MaxExclDecl)

InitExcl ==
    /\ repo \in ExclRepos
    /\ Constructed(repo)
    /\ notes = <<>>
    /\ addLog = <<>>
    /\ lastOp = NoOp
    /\ units = <<>>
    /\ ts = {}
    /\ pt = {}
    /\ result = NoResult

SpecExcl == InitExcl /\ [][NextNotes]_vars

(***************************************************************************)
(* Definitions the properties use.                                         *)
(***************************************************************************)
Vertices == 1..Len(graph)

Count(seq, x) == Cardinality({n \in 1..Len(seq) : seq[n] = x})

Range(seq) == {seq[n] : n \in 1..Len(seq)}

\* the path make_depgroup_path returns when it returns
DepgroupPath(p, n) == make_depgroup_path(p, n, FALSE).path

\* The vertices that are not ExcludeAll DepGroups, and the dependency edges
\* among them.
Passable(g) == {v \in 1..Len(g) : g[v].dg_type # "kS16ExcludeAll"}

RECURSIVE DepClosure(_, _, _)
DepClosure(g, front, found) ==
    LET next == (UNION {Range(g[v].dependencies) : v \in front} \cap Passable(g)) \ found
    IN  IF next = {} THEN found ELSE DepClosure(g, next, found \cup next)

\* The vertices reached from v by one or more dependency edges.
DependsOn(g, v) == DepClosure(g, {v}, {})

AllInstalled == \A s \in Services : vtx_find_by_path(graph, SvcPath(s)) # 0

(***************************************************************************)
(* C1: the dependency edges never contain a cycle among the vertices that  *)
(* are not ExcludeAll DepGroups.                                           *)
(***************************************************************************)
C1_Acyclic ==
    \A v \in Passable(graph) : v \notin DependsOn(graph, v)

(***************************************************************************)
(* C2: for all vertices u and v, u.dependencies holds as many edges to v   *)
(* as v.dependents holds edges to u.                                       *)
(***************************************************************************)
C2_SymmetricEdges ==
    \A u \in Vertices : \A v \in Vertices :
        Count(graph[u].dependencies, v) = Count(graph[v].dependents, u)

\* A setup has had an add rejected and others accepted.
C2_Witness ==
    /\ Len(addLog) > 0
    /\ \E u \in Vertices : graph[u].type = "V_DEPGROUP" /\ Len(graph[u].dependencies) > 0

(***************************************************************************)
(* C3: when a target of a dependency group is rejected for closing a       *)
(* cycle, nothing of that group stays in the graph (no DepGroup vertex of  *)
(* the group), and the later groups of the same vertex whose targets do    *)
(* not depend on the vertex are materialized in full.                      *)
(***************************************************************************)
Materialized(v, n) ==
    LET dgv == vtx_find_by_path(graph, DepgroupPath(graph[v].path, n))
        dg == repo.groups[graph[v].path][n + 1]
    IN  /\ dgv # 0
        /\ dgv \in Range(graph[v].dependencies)
        /\ \A t \in Range(dg.paths) :
              vtx_find_by_path(graph, t) \in Range(graph[dgv].dependencies)

Acyclical(v, n) ==
    LET dg == repo.groups[graph[v].path][n + 1]
    IN  \A t \in Range(dg.paths) :
          /\ vtx_find_by_path(graph, t) # v
          /\ v \notin DependsOn(graph, vtx_find_by_path(graph, t))

C3_NoPartialState ==
    \A e \in Range(addLog) :
      \A v \in {u \in Vertices : graph[u].type = "V_INST"} :
        \A n \in 0..(Len(repo.groups[graph[v].path]) - 1) :
          DepgroupPath(graph[v].path, n) = e.from
          => /\ vtx_find_by_path(graph, e.from) = 0
             /\ \A m \in (n + 1)..(Len(repo.groups[graph[v].path]) - 1) :
                  Acyclical(v, m) => Materialized(v, m)

(***************************************************************************)
(* C4: with a:i RequireAll [b:j] and b:j RequireAll [a:i], setting up a:i  *)
(* rejects the add b:j#depgroups/0 -> a:i, adds no such edge, and reports  *)
(* the path.                                                               *)
(***************************************************************************)
RequireAllOf(t) == [type |-> "kS16RequireAll", restart_on |-> kS16RestartOnAny, paths |-> <<t>>]

CycleRepo ==
    [EmptyRepo(InstsOne) EXCEPT !.groups[PathAI] = <<RequireAllOf(PathBJ)>>,
                                !.groups[PathBJ] = <<RequireAllOf(PathAI)>>]

CycleScenario ==
    /\ repo = CycleRepo
    /\ lastOp.op = "setup"
    /\ lastOp.path = PathAI
    /\ ~aborted

SecondAddRejected ==
    /\ Len(addLog) = 1
    /\ addLog[1].from = DepgroupPath(PathBJ, 0)
    /\ addLog[1].to = PathAI
    /\ vtx_find_by_path(graph, PathAI) \notin
          Range(graph[vtx_find_by_path(graph, DepgroupPath(PathBJ, 0))].dependencies)

\* The claim as stated: the path is [b:j#depgroups/0, a:i#depgroups/0, b:j].
C4_PathAsStated ==
    CycleScenario =>
        /\ SecondAddRejected
        /\ addLog[1].pathTo = <<DepgroupPath(PathBJ, 0), DepgroupPath(PathAI, 0), PathBJ>>

\* C4 as amended: the path leads from the target of the rejected edge to
\* its source, [a:i, a:i#depgroups/0, b:j, b:j#depgroups/0].
C4_CyclePath ==
    CycleScenario =>
        /\ SecondAddRejected
        /\ addLog[1].pathTo =
              <<PathAI, DepgroupPath(PathAI, 0), PathBJ, DepgroupPath(PathBJ, 0)>>

C4_Witness == CycleScenario /\ Len(addLog) = 1

(***************************************************************************)
(* C5: graph_install_service of a service that is installed leaves the     *)
(* vertex list and every edge list as they are.                            *)
(***************************************************************************)
C5_IdempotentInstall ==
    [][(lastOp'.op = "install" /\ lastOp'.again) => graph' = graph]_vars

\* A service is installed again after an instance's groups were set up.
C5_Witness ==
    /\ lastOp.op = "install"
    /\ lastOp.again
    /\ \E v \in Vertices : graph[v].type = "V_DEPGROUP" /\ Len(graph[v].dependencies) > 0

(***************************************************************************)
(* C6: after every service is installed and every vertex set up, the       *)
(* dependencies of a Service vertex are one DepGroup vertex for each group *)
(* the service declares and one edge to each of its instances.             *)
(***************************************************************************)
ServiceDependencies(s) ==
    LET sv == vtx_find_by_path(graph, SvcPath(s))
        deps == graph[sv].dependencies
        k == Len(repo.groups[SvcPath(s)])
    IN  /\ Len(deps) = k + Len(repo.insts[s])
        /\ \A n \in 0..(k - 1) :
              Count(deps, vtx_find_by_path(graph, DepgroupPath(SvcPath(s), n))) = 1
        /\ \A n \in 1..Len(repo.insts[s]) :
              Count(deps, vtx_find_by_path(graph, S16PathNew(s, repo.insts[s][n]))) = 1

C6_ServiceDependencies ==
    (lastOp.op = "setup_all" /\ ~aborted /\ AllInstalled)
        => \A s \in Services : ServiceDependencies(s)

(***************************************************************************)
(* The results of the evaluator the properties compare.                    *)
(***************************************************************************)
Recursions == {1, 2}

\* The results of the children of v in its dependencies list.
ChildResults(v, r) == {result.sat[c][r] : c \in Range(graph[v].dependencies)}

\* UNSATISFIABLE dominates UNSATISFIED dominates SATISFIED.
Worst(results) ==
    IF UNSATISFIABLE \in results THEN UNSATISFIABLE
    ELSE IF UNSATISFIED \in results THEN UNSATISFIED
    ELSE SATISFIED

(***************************************************************************)
(* C7: a RequireAny DepGroup is SATISFIED if it has no targets or some     *)
(* target is SATISFIED, otherwise UNSATISFIED if some target is            *)
(* UNSATISFIED, and UNSATISFIABLE if every target is UNSATISFIABLE.        *)
(***************************************************************************)
C7_RequireAny ==
    result.done =>
      \A v \in Vertices : \A r \in Recursions :
        (graph[v].type = "V_DEPGROUP" /\ graph[v].dg_type = "kS16RequireAny"
            /\ ABORTED \notin ChildResults(v, r))
        => result.agg[v][r] =
              (IF ChildResults(v, r) = {} \/ SATISFIED \in ChildResults(v, r)
               THEN SATISFIED
               ELSE IF UNSATISFIED \in ChildResults(v, r) THEN UNSATISFIED
               ELSE UNSATISFIABLE)

(***************************************************************************)
(* C8: a RequireAll DepGroup, and the aggregate of the DepGroups of an     *)
(* Instance, is UNSATISFIABLE if any child is UNSATISFIABLE, else          *)
(* UNSATISFIED if any child is UNSATISFIED, else SATISFIED, whatever the   *)
(* order of the children (the children all evaluate to a result).          *)
(***************************************************************************)
C8_RequireAll ==
    result.done =>
      \A v \in Vertices : \A r \in Recursions :
        (graph[v].dg_type = "kS16RequireAll" /\ graph[v].type \in {"V_DEPGROUP", "V_INST"}
            /\ ABORTED \notin ChildResults(v, r))
        => result.agg[v][r] = Worst(ChildResults(v, r))

\* A RequireAll group whose first target is UNSATISFIABLE and whose second
\* is UNSATISFIED was evaluated, and so was the instance that declares it.
C8_Witness ==
    /\ result.done
    /\ \E v \in Vertices :
          /\ graph[v].type = "V_DEPGROUP"
          /\ graph[v].dg_type = "kS16RequireAll"
          /\ Len(graph[v].dependencies) = 2
          /\ result.sat[graph[v].dependencies[1]][2] = UNSATISFIABLE
          /\ result.sat[graph[v].dependencies[2]][2] = UNSATISFIED
          /\ result.agg[v][2] = UNSATISFIABLE
          /\ \E i \in Range(graph[v].dependents) :
                graph[i].type = "V_INST" /\ result.agg[i][2] = UNSATISFIABLE

(***************************************************************************)
(* C9: an ExcludeAll DepGroup with a Service among its targets evaluates,  *)
(* without aborting, to the fold of the exclusion rule over its Instance   *)
(* targets and the Instances of its Service targets.                       *)
(***************************************************************************)
InstancesOf(v) ==
    IF graph[v].type = "V_INST"
    THEN {v}
    ELSE {c \in Range(graph[v].dependencies) : graph[c].type = "V_INST"}

ExcludedInstances(v) == UNION {InstancesOf(c) : c \in Range(graph[v].dependencies)}

C9_ExcludeAllService ==
    result.done =>
      \A v \in Vertices : \A r \in Recursions :
        (graph[v].type = "V_DEPGROUP" /\ graph[v].dg_type = "kS16ExcludeAll"
            /\ \E c \in Range(graph[v].dependencies) :
                  graph[c].type = "V_SVC" /\ InstancesOf(c) # {})
        => result.agg[v][r] =
              Worst({vtx_inst_satisfies_exclusion(graph, c) : c \in ExcludedInstances(v)})

(***************************************************************************)
(* C10: where the only group of a:i is ExcludeAll [b:j]: while b:j is      *)
(* Online and enabled the group is UNSATISFIABLE and a:i cannot come up;   *)
(* once A_DISABLE(b:j), sent while b:j was Online and enabled, is          *)
(* processed and the queue is empty, b:j is Disabled, a:i is not marked    *)
(* to_offline and the group is SATISFIED.                                  *)
(***************************************************************************)
ExcludeScenario ==
    /\ ~aborted
    /\ Len(repo.groups[PathAI]) = 1
    /\ repo.groups[PathAI][1].type = "kS16ExcludeAll"
    /\ repo.groups[PathAI][1].paths = <<PathBJ>>

VtxAI == vtx_find_by_path(graph, PathAI)
VtxBJ == vtx_find_by_path(graph, PathBJ)
ExcludeGroup == vtx_find_by_path(graph, DepgroupPath(PathAI, 0))

\* A_DISABLE(b:j) was sent while b:j was Online and enabled and a:i was not
\* marked, and no other note was sent since.
DisablingBJ ==
    /\ ExcludeScenario
    /\ lastOp.op = "note"
    /\ lastOp.type = "A_DISABLE"
    /\ lastOp.path = PathBJ
    /\ lastOp.pre[VtxBJ].state = "Online"
    /\ lastOp.pre[VtxBJ].is_enabled
    /\ ~lastOp.pre[VtxAI].to_offline

DisabledBJ == DisablingBJ /\ notes = <<>>

C10_Exclusion ==
    /\ (ExcludeScenario /\ graph[VtxBJ].state = "Online" /\ graph[VtxBJ].is_enabled)
        => /\ depgroup_is_satisfied(graph, ExcludeGroup, TRUE, Depth(graph)) = UNSATISFIABLE
           /\ vtx_inst_can_come_up(graph, VtxAI) = "no"
    /\ DisablingBJ => ~graph[VtxAI].to_offline
    /\ DisabledBJ
        => /\ graph[VtxBJ].state = "Disabled"
           /\ depgroup_is_satisfied(graph, ExcludeGroup, TRUE, Depth(graph)) = SATISFIED

C10_Witness == DisabledBJ /\ graph[VtxBJ].state = "Disabled"

(***************************************************************************)
(* C11: an OptionalAll DepGroup over Instance targets never evaluates to   *)
(* UNSATISFIABLE, and evaluates to SATISFIED when every target is not set  *)
(* up, Disabled, in Maintenance, Online or Degraded; so a:i, enabled, with *)
(* no pending flag and OptionalAll [b:j] as its only group, can come up    *)
(* while b:j is in Maintenance.  The graph daemon writes no Maintenance    *)
(* and no Degraded state: for these the evaluator is applied to the graph  *)
(* with the state of one target replaced.                                  *)
(***************************************************************************)
\* The graph in which instance c is in state st.
TargetIn(g, c, st) == [g EXCEPT ![c].state = st]

Tolerated(g, v) ==
    \/ ~g[v].is_setup
    \/ g[v].state \in {"Disabled", "Maintenance", "Online", "Degraded"}

\* v is an OptionalAll group whose targets are instances.
OptionalOverInstances(v) ==
    /\ graph[v].type = "V_DEPGROUP"
    /\ graph[v].dg_type = "kS16OptionalAll"
    /\ \A c \in Range(graph[v].dependencies) : graph[c].type = "V_INST"

OptionalScenario ==
    /\ Len(repo.groups[PathAI]) = 1
    /\ repo.groups[PathAI][1].type = "kS16OptionalAll"
    /\ repo.groups[PathAI][1].paths = <<PathBJ>>
    /\ graph[VtxAI].is_enabled
    /\ ~graph[VtxAI].to_offline
    /\ ~graph[VtxAI].to_disable

OptionalGroup == vtx_find_by_path(graph, DepgroupPath(PathAI, 0))

C11_OptionalAll ==
    /\ result.done =>
         \A v \in Vertices : \A r \in Recursions :
           OptionalOverInstances(v)
           => /\ result.agg[v][r] \in {SATISFIED, UNSATISFIED}
              /\ (\A c \in Range(graph[v].dependencies) : Tolerated(graph, c))
                    => result.agg[v][r] = SATISFIED
              /\ \A t \in Range(graph[v].dependencies) : \A st \in States :
                    LET h == TargetIn(graph, t, st)
                        agg == depgroup_is_satisfied(h, v, r = 2, Depth(h))
                    IN  /\ agg \in {SATISFIED, UNSATISFIED}
                        /\ (\A c \in Range(h[v].dependencies) : Tolerated(h, c))
                              => agg = SATISFIED
    /\ (result.done /\ OptionalScenario)
          => /\ vtx_inst_can_come_up(TargetIn(graph, VtxBJ, "Maintenance"), VtxAI) = "yes"
             /\ Tolerated(graph, VtxBJ) => vtx_inst_can_come_up(graph, VtxAI) = "yes"

\* a:i's only group OptionalAll [b:j] was evaluated with b:j disabled by the
\* administrator, and a:i can come up.
C11_Witness ==
    /\ result.done
    /\ OptionalScenario
    /\ graph[VtxBJ].state = "Disabled"
    /\ ~graph[VtxBJ].is_enabled
    /\ result.agg[OptionalGroup][2] = SATISFIED

(***************************************************************************)
(* The note at the head of the queue and what its processing appends.      *)
(***************************************************************************)
\* The head of the queue is an SC_ONLINE note; the next step processes it.
ProcessingOnline ==
    /\ ~aborted
    /\ notes # <<>>
    /\ Head(notes).note_type = "N_STATE_CHANGE"
    /\ Head(notes).type = "SC_ONLINE"

HeadVertex == vtx_find_by_path(graph, Head(notes).path)

(***************************************************************************)
(* C12: with the flags held fixed, the change of one Instance from Offline *)
(* to Online moves the result of no other vertex downwards (SATISFIED over *)
(* UNSATISFIED over UNSATISFIABLE), for all four group kinds.              *)
(***************************************************************************)
\* The step processes the SC_ONLINE note of an Offline instance: the
\* instance is Online after it, and nothing else of the graph has changed.
CameOnline ==
    /\ ProcessingOnline
    /\ HeadVertex # 0
    /\ graph[HeadVertex].state = "Offline"
    /\ ~aborted'
    /\ graph' = [graph EXCEPT ![HeadVertex].state = "Online"]

\* The results of v in graph h are not worse than in graph g: a worse
\* result is a larger satisfied_t.
NotLowered(g, h, v) ==
    \A recurse \in BOOLEAN :
        /\ vtx_satisfies(h, v, recurse, Depth(h)) <= vtx_satisfies(g, v, recurse, Depth(g))
        /\ depgroup_is_satisfied(h, v, recurse, Depth(h))
              <= depgroup_is_satisfied(g, v, recurse, Depth(g))

\* The claim as stated, for every kind of group.
C12_Monotone ==
    [][CameOnline => \A v \in Vertices \ {HeadVertex} : NotLowered(graph, graph', v)]_vars

RequireOnly ==
    \A v \in Vertices :
        graph[v].type = "V_DEPGROUP" => graph[v].dg_type \in {"kS16RequireAll", "kS16RequireAny"}

\* C12 as amended: in a graph whose groups are all RequireAll or RequireAny
\* groups, the change moves the result of no other vertex downwards.
C12_MonotoneRequire ==
    [][(CameOnline /\ RequireOnly)
          => \A v \in Vertices \ {HeadVertex} : NotLowered(graph, graph', v)]_vars

\* An instance that was Offline was reported online and its note processed,
\* in a graph of require groups, and the result of a group rose.
C12_Witness ==
    /\ ~aborted
    /\ lastOp.op = "note"
    /\ lastOp.type = "SC_ONLINE"
    /\ RequireOnly
    /\ LET v == vtx_find_by_path(graph, lastOp.path)
       IN  /\ lastOp.pre[v].state = "Offline"
           /\ graph = [lastOp.pre EXCEPT ![v].state = "Online"]
           /\ \E u \in Vertices \ {v} :
                 /\ graph[u].type = "V_DEPGROUP"
                 /\ depgroup_is_satisfied(graph, u, TRUE, Depth(graph))
                       < depgroup_is_satisfied(lastOp.pre, u, TRUE, Depth(graph))

\* The notes the step appended behind the notes that were waiting.
Appended == SubSeq(notes', Len(notes), Len(notes'))

\* The instances reached from the vertices of front along dependents edges
\* that pass through DepGroup and Service vertices only.
RECURSIVE StartClosure(_, _, _)
StartClosure(g, front, found) ==
    LET next == UNION {Range(g[u].dependents) : u \in front}
        new == next \ found
    IN  IF new = {}
        THEN {u \in found : g[u].type = "V_INST"}
        ELSE StartClosure(g, {u \in new : g[u].type # "V_INST"}, found \cup new)

StartTargets(g, v) ==
    {u \in StartClosure(g, {v}, {}) :
        vtx_inst_can_come_up(g, u) = "yes" /\ ~vtx_is_running(g, u)}

RequireScenario ==
    /\ Len(repo.groups[PathAI]) = 1
    /\ repo.groups[PathAI][1].type = "kS16RequireAll"
    /\ repo.groups[PathAI][1].paths = <<PathBJ>>

(***************************************************************************)
(* C13: processing SC_ONLINE(v) sets v Online and appends SC_ONLINE(d) for *)
(* exactly the Instances d reached from v along dependents edges through   *)
(* DepGroup and Service vertices that can come up and are not running; in  *)
(* scenario S1 (a:i RequireAll [b:j]) a:i cannot and b:j can come up after *)
(* setup, and processing SC_ONLINE(b:j) appends SC_ONLINE(a:i).            *)
(***************************************************************************)
C13_NotifyStart ==
    /\ []((RequireScenario /\ lastOp.op = "init" /\ ~aborted)
            => /\ vtx_inst_can_come_up(graph, VtxAI) = "no"
               /\ vtx_inst_can_come_up(graph, VtxBJ) = "yes")
    /\ [][(ProcessingOnline /\ ~aborted')
            => /\ graph'[HeadVertex].state = "Online"
               /\ \A n \in Range(Appended) :
                     n = s16note_new("N_STATE_CHANGE", "SC_ONLINE", n.path, 0)
               /\ {n.path : n \in Range(Appended)}
                     = {graph'[u].path : u \in StartTargets(graph', HeadVertex)}
               /\ (RequireScenario /\ Head(notes).path = PathBJ /\ lastOp.op = "setup_all")
                     => PathAI \in {n.path : n \in Range(Appended)}]_vars

\* In S1, b:j is Online and SC_ONLINE(a:i) waits in the queue.
C13_Witness ==
    /\ RequireScenario
    /\ lastOp.op = "setup_all"
    /\ ~aborted
    /\ graph[VtxBJ].state = "Online"
    /\ ~vtx_is_running(graph, VtxAI)
    /\ \E n \in Range(notes) : n.type = "SC_ONLINE" /\ n.path = PathAI

(***************************************************************************)
(* C14: processing an SC_ONLINE note for a vertex that is Online changes   *)
(* no field of any vertex and appends no note.                             *)
(***************************************************************************)
C14_DuplicateOnline ==
    [][(ProcessingOnline /\ graph[HeadVertex].state = "Online" /\ ~aborted')
          => (graph' = graph /\ notes' = Tail(notes))]_vars

(***************************************************************************)
(* C15: for an Instance v that is Online, enabled, with no pending flag    *)
(* and not the target of an ExcludeAll group, A_DISABLE(v) into the empty  *)
(* queue, the queue drained, then A_ENABLE(v), the queue drained, ends     *)
(* with v Online, enabled and with no pending flag.                        *)
(***************************************************************************)
\* The DepGroups that have vertex v, or the Service of v, as a target.
GroupsOver(g, v) ==
    {u \in 1..Len(g) :
        /\ g[u].type = "V_DEPGROUP"
        /\ \/ v \in Range(g[u].dependencies)
           \/ \E sv \in Range(g[u].dependencies) :
                 g[sv].type = "V_SVC" /\ v \in Range(g[sv].dependencies)}

ReadyForTrip(g, v) ==
    /\ g[v].type = "V_INST"
    /\ g[v].state = "Online"
    /\ g[v].is_enabled
    /\ ~g[v].to_offline
    /\ ~g[v].to_disable
    /\ \A u \in GroupsOver(g, v) : g[u].dg_type # "kS16ExcludeAll"

TripVertex == vtx_find_by_path(graph, lastOp.path)

\* A_ENABLE(v) followed the drained A_DISABLE(v), and the queue is empty.
TripDone ==
    /\ ~aborted
    /\ lastOp.op = "note"
    /\ lastOp.type = "A_ENABLE"
    /\ lastOp.again
    /\ notes = <<>>
    /\ ReadyForTrip(lastOp.pre, TripVertex)

BackOnline(v) ==
    /\ graph[v].state = "Online"
    /\ graph[v].is_enabled
    /\ ~graph[v].to_offline
    /\ ~graph[v].to_disable

\* The claim as stated, whatever the dependencies of v.
C15_RoundTrip == TripDone => BackOnline(TripVertex)

BackOffline(v) ==
    /\ graph[v].state = "Offline"
    /\ graph[v].is_enabled
    /\ ~graph[v].to_offline
    /\ ~graph[v].to_disable

\* C15 as amended: for every graph around v, whatever its dependents and
\* dependencies, the round trip ends with v Online when the dependency
\* groups of v were SATISFIED before the A_DISABLE, and with v Offline,
\* enabled and without pending flags when they were not.
C15_RoundTripSatisfied ==
    TripDone =>
        IF depgroup_is_satisfied(lastOp.pre, TripVertex, TRUE, Depth(graph)) = SATISFIED
        THEN BackOnline(TripVertex)
        ELSE BackOffline(TripVertex)

\* a:i, with a group of its own that is SATISFIED and a group of another
\* instance over it, made the round trip.
C15_Witness ==
    /\ TripDone
    /\ lastOp.path = PathAI
    /\ Len(graph[VtxAI].dependencies) = 1
    /\ GroupsOver(graph, VtxAI) # {}
    /\ depgroup_is_satisfied(lastOp.pre, VtxAI, TRUE, Depth(graph)) = SATISFIED
    /\ BackOnline(VtxAI)

(***************************************************************************)
(* C16: for every graph built by install and setup and every note that     *)
(* enters the empty queue, the processing of notes terminates: every       *)
(* handler returns, also where ExcludeAll groups form a cycle, and the     *)
(* queue becomes empty.  The formula states that, the graph once built, no *)
(* handler fails to return.                                                *)
(***************************************************************************)
C16_HandlersReturn == lastOp.op # "init" => ~aborted

(***************************************************************************)
(* restartd: the unit state machine (unit.c).                              *)
(*                                                                         *)
(* A unit is a record of the fields of Unit.  `arrived` is the state named *)
(* by the last "Unit arrived at state" line the unit logged, `started` the *)
(* number of start requests it has received.  pids is the set of the PIDs  *)
(* of pid_list_t pids.  The handlers are operators on a context            *)
(*   u      the unit,                                                      *)
(*   ts     the timer set, a set of [id, data, cb] records,                *)
(*   fr     the outcomes of the next forks of this handler (TRUE: the fork *)
(*          yields a PID); a fork after the last listed outcome has that   *)
(*          last outcome too,                                              *)
(*   forked the methods forked by this handler so far,                     *)
(*   ret    the value returned by the last unit_fork_and_register,         *)
(*   failed the forks of this handler that yielded no PID,                 *)
(*   full   the handler needs a PID or a timer identifier beyond the       *)
(*          model's,                                                       *)
(*   pt     the PIDs the process tracker watches,                          *)
(*   signals  the (pid, signal) pairs of the handler's kill calls,         *)
(*   registered  the identifiers of the timers the handler registered,     *)
(*   oob, outside, ended  the outcome of an access to fail_cnt[-1], that   *)
(*          the handler made one, and that the process ended at it,        *)
(*   fr0    the outcomes the handler started with,                         *)
(*   diverges  the handler never returns: unit_enter_stop and              *)
(*          unit_purge_and_target call each other for as long as the Stop  *)
(*          method cannot be forked.                                       *)
(* The timer set and the process tracker are libraries outside unit.c:     *)
(* timerset_add registers a timer under the lowest identifier that names   *)
(* no registered timer, timerset_del of an identifier that names no        *)
(* registered timer does nothing, a fired timer stays registered until its *)
(* callback deletes it, the tracker's watch and disregard calls add a PID  *)
(* to and remove it from the watched set, and a fork yields the lowest PID *)
(* that the tracker does not watch and that the unit neither tracks nor    *)
(* remembers as main_pid or secondary_pid.  The manager hands a process    *)
(* event to the first unit of its list that tracks the PID.                *)
(***************************************************************************)
MaxPid == 2        \* PIDs are 1..MaxPid
MaxTimer == 2      \* timer identifiers are 1..MaxTimer
MaxForkFail == 2   \* fork outcomes an event fixes in advance
MaxFailures == 1   \* failures of methods counted in the unit's life
MaxStart == 2      \* start requests a unit receives in its life

Pids == 1..MaxPid

TimerIds == 1..MaxTimer

UnitTypes == {"U_SIMPLE", "U_ONESHOT", "U_FORKS", "U_GROUP", "U_NOTIFY"}

UnitMethods == {"UM_PRESTART", "UM_START", "UM_POSTSTART", "UM_STOP", "UM_POSTSTOP"}

UnitStates ==
    {"Uninitialised", "Offline", "US_PRESTART", "US_START", "US_POSTSTART",
     "Online", "US_STOP", "US_STOPTERM", "US_STOPKILL", "US_POSTSTOP",
     "Maintenance", "None"}

UnitPathAI == S16PathNew("a", "i")

UnitPaths == {UnitPathAI}

UnitPathBI == S16PathNew("b", "i")

\* manager.units, in the order of the list
UnitList == <<UnitPathAI, UnitPathBI>>

Lowest(S) == CHOOSE x \in S : \A y \in S : x <= y

\* "-1" is the value for a state that runs no method; it is no index of
\* fail_cnt
state_to_S16ServiceMethodype(state) ==
    CASE state = "US_PRESTART" -> "UM_PRESTART"
      [] state = "US_START" -> "UM_START"
      [] state = "US_POSTSTART" -> "UM_POSTSTART"
      [] state = "US_STOP" -> "UM_STOP"
      [] state = "US_POSTSTOP" -> "UM_POSTSTOP"
      [] OTHER -> "-1"

unit_stopping(u) == u.state \in {"US_STOP", "US_STOPTERM", "US_STOPKILL", "US_POSTSTOP"}

unit_has_pid(u, pid) == pid \in u.pids

unit_add(path, type, methods) ==
    [path |-> path, type |-> type, methods |-> methods,
     state |-> "Uninitialised", target |-> "Uninitialised",
     main_pid |-> 0, secondary_pid |-> 0, pids |-> {},
     timer_id |-> 0, meth_restart_timer_id |-> 0,
     fail_cnt |-> [m \in UnitMethods |-> 0],
     arrived |-> "Uninitialised", started |-> 0]

timerset_ids(t) == {x.id : x \in t}

timerset_del(t, id) == {x \in t : x.id # id}

timerset_free(t) == TimerIds \ timerset_ids(t)

\* the identifier timerset_add returns; 0 when the model has no identifier left
timerset_next(t) == IF timerset_free(t) = {} THEN 0 ELSE Lowest(timerset_free(t))

timerset_add(t, data, cb) ==
    IF timerset_free(t) = {} THEN t
    ELSE t \cup {[id |-> timerset_next(t), data |-> data, cb |-> cb]}

\* What the build makes of fail_cnt[-1], the int before the array: the
\* process ends at the access, or the int counts more than five after its
\* increment ("many"), or it does not ("few").
OutOfBounds == {"ends", "many", "few"}

UnitCtx(u, t, fr) ==
    [u |-> u, ts |-> t, fr |-> fr, forked |-> <<>>, failed |-> 0, ret |-> 0,
     full |-> FALSE, diverges |-> FALSE, fr0 |-> fr, pt |-> pt, signals |-> {},
     oob |-> "few", outside |-> FALSE, ended |-> FALSE, registered |-> {}]

UnitTimerReg(ctx) ==
    [ctx EXCEPT !.u.timer_id = timerset_next(ctx.ts),
                !.ts = timerset_add(ctx.ts, ctx.u.path, "unit_timer_event"),
                !.registered = @ \cup ({timerset_next(ctx.ts)} \ {0}),
                !.full = @ \/ timerset_free(ctx.ts) = {}]

UnitTimerDereg(ctx) ==
    [ctx EXCEPT !.ts = timerset_del(ctx.ts, ctx.u.timer_id), !.u.timer_id = 0]

DbgEnteredState(ctx, x) == [ctx EXCEPT !.u.arrived = x]

S16ProcessTrackerWatchPID(t, pid) == t \cup {pid}

S16ProcessTrackerDisregardPID(t, pid) == t \ {pid}

\* unit_deregister_pid without the tracker's part
unit_deregister_pid_list(ctx, pid) == [ctx EXCEPT !.u.pids = @ \ {pid}]

unit_deregister_pid(ctx, pid) ==
    [ctx EXCEPT !.pt = S16ProcessTrackerDisregardPID(@, pid), !.u.pids = @ \ {pid}]

\* the PIDs a fork of the unit's handler can yield
FreePids(ctx) == Pids \ (ctx.pt \cup ctx.u.pids \cup {ctx.u.main_pid, ctx.u.secondary_pid})

unit_fork_and_register(ctx, method) ==
    LET ok == Head(ctx.fr)
        rest == IF Len(ctx.fr) > 1 THEN Tail(ctx.fr) ELSE ctx.fr
    IN  IF ~ok
        THEN [ctx EXCEPT !.fr = rest, !.ret = 0, !.failed = @ + 1]
        ELSE IF FreePids(ctx) = {}
        THEN [ctx EXCEPT !.fr = rest, !.ret = 0, !.full = TRUE]
        ELSE [ctx EXCEPT !.fr = rest, !.ret = Lowest(FreePids(ctx)),
                         !.pt = S16ProcessTrackerWatchPID(@, Lowest(FreePids(ctx))),
                         !.u.pids = @ \cup {Lowest(FreePids(ctx))},
                         !.forked = Append(@, method)]

\* No fork of the rest of the handler yields a PID.
ForkNever(ctx) == Len(ctx.fr) = 1 /\ ~Head(ctx.fr)

RECURSIVE unit_enter_state(_, _)
RECURSIVE unit_enter_prestart(_)
RECURSIVE unit_enter_start(_)
RECURSIVE unit_enter_poststart(_)
RECURSIVE unit_enter_stop(_)
RECURSIVE unit_enter_stopterm(_)
RECURSIVE unit_enter_stopkill(_)
RECURSIVE unit_purge_and_target(_)

unit_enter_maintenance(ctx) ==
    [DbgEnteredState(ctx, "Maintenance") EXCEPT !.u.state = "Maintenance"]

unit_enter_offline(ctx) ==
    [DbgEnteredState(ctx, "Offline") EXCEPT !.u.state = "Offline"]

unit_enter_online(ctx) == DbgEnteredState(ctx, "Online")

\* (a handler that has left the model's PID space is followed no further)
unit_purge_and_target(ctx) ==
    IF ctx.full THEN ctx
    ELSE IF ctx.u.pids # {}
    THEN unit_enter_stop(ctx)
    ELSE unit_enter_state(ctx, ctx.u.target)

unit_enter_prestart(ctx) ==
    IF "UM_PRESTART" \in ctx.u.methods
    THEN LET c1 == [DbgEnteredState(ctx, "PreStart") EXCEPT !.u.state = "US_PRESTART"]
             c2 == unit_fork_and_register(UnitTimerReg(c1), "UM_PRESTART")
             c3 == [c2 EXCEPT !.u.main_pid = c2.ret]
         IN  IF c3.u.main_pid = 0
             THEN unit_purge_and_target([c3 EXCEPT !.u.target = "Maintenance"])
             ELSE c3
    ELSE unit_enter_start(ctx)

unit_enter_start(ctx) ==
    LET c1 == [DbgEnteredState(ctx, "Start") EXCEPT !.u.state = "US_START"]
        c2 == unit_fork_and_register(c1, "UM_START")
        c3 == [c2 EXCEPT !.u.main_pid = c2.ret]
    IN  IF c3.u.main_pid = 0
        THEN unit_purge_and_target([c3 EXCEPT !.u.target = "Maintenance"])
        ELSE IF c3.u.type \in {"U_SIMPLE", "U_ONESHOT", "U_GROUP"}
        THEN unit_enter_poststart(c3)
        ELSE UnitTimerReg(c3)

unit_enter_poststart(ctx) ==
    IF "UM_POSTSTART" \in ctx.u.methods
    THEN LET c1 == [DbgEnteredState(ctx, "Poststart") EXCEPT !.u.state = "US_POSTSTART"]
             c2 == unit_fork_and_register(UnitTimerReg(c1), "UM_POSTSTART")
             c3 == [c2 EXCEPT !.u.secondary_pid = c2.ret]
         IN  IF c3.u.secondary_pid = 0
             THEN unit_purge_and_target([c3 EXCEPT !.u.target = "Maintenance"])
             ELSE c3
    ELSE unit_enter_online(ctx)

unit_enter_stop(ctx) ==
    IF "UM_STOP" \in ctx.u.methods
    THEN LET c1 == [DbgEnteredState(ctx, "Stop") EXCEPT !.u.state = "US_STOP"]
             c2 == unit_fork_and_register(UnitTimerReg(c1), "UM_STOP")
             c3 == [c2 EXCEPT !.u.secondary_pid = c2.ret]
             c4 == [c3 EXCEPT !.u.target = "Maintenance"]
         IN  IF c3.u.secondary_pid = 0
             THEN IF ForkNever(c3) /\ c3.u.pids # {}
                  THEN [c4 EXCEPT !.diverges = TRUE]
                  ELSE unit_purge_and_target(c4)
             ELSE c3
    ELSE unit_enter_stopterm(ctx)

\* kill() changes no field of the unit: a signalled process ends with an
\* exit event.  The handler's signals are kept as (pid, signal) pairs:
\* kill (main_pid, sig) if main_pid is set, then kill (pid, sig) for the list.
kill_pids(ctx, sig) ==
    [ctx EXCEPT !.signals = @ \cup {<<pid, sig>> : pid \in ctx.u.pids \cup ({ctx.u.main_pid} \ {0})}]

unit_enter_stopterm(ctx) ==
    IF ctx.u.pids = {}
    THEN unit_enter_state(ctx, ctx.u.target)
    ELSE kill_pids(UnitTimerReg([DbgEnteredState(ctx, "Stopterm")
                                    EXCEPT !.u.state = "US_STOPTERM"]), "SIGTERM")

unit_enter_stopkill(ctx) ==
    IF ctx.u.pids = {}
    THEN unit_enter_state(ctx, ctx.u.target)
    ELSE kill_pids(UnitTimerReg([DbgEnteredState(ctx, "Stopkill")
                                    EXCEPT !.u.state = "US_STOPKILL"]), "SIGKILL")

unit_enter_state(ctx, state) ==
    CASE state = "Offline" -> unit_enter_offline(ctx)
      [] state = "Maintenance" -> unit_enter_maintenance(ctx)
      [] state = "US_PRESTART" -> unit_enter_prestart(ctx)
      [] state = "US_START" -> unit_enter_start(ctx)
      [] state = "US_POSTSTART" -> unit_enter_poststart(ctx)
      [] state = "Online" -> unit_enter_online(ctx)
      [] state = "None" -> [ctx EXCEPT !.u.state = "None"]
      [] OTHER -> ctx

unit_restart_begin_cb(ctx, id) ==
    unit_enter_prestart([ctx EXCEPT !.u.meth_restart_timer_id = 0,
                                    !.ts = timerset_del(ctx.ts, id)])

unit_retry_start(ctx) ==
    LET c1 == unit_purge_and_target([ctx EXCEPT !.u.target = "None"])
    IN  [c1 EXCEPT !.u.meth_restart_timer_id = timerset_next(c1.ts),
                   !.ts = timerset_add(c1.ts, c1.u.path, "unit_restart_begin_cb"),
                   !.registered = @ \cup ({timerset_next(c1.ts)} \ {0}),
                   !.full = @ \/ timerset_free(c1.ts) = {}]

kS16ProcessTrackerEventTypeChild == "Child"

kS16ProcessTrackerEventTypeExit == "Exit"

\* a method may fail five times; the next failure is the last
MaxMethodFail == 5

\* the branch of unit_ptevent for the exit of the main PID
unit_ptevent_main(ctx, info) ==
    LET c1 == [ctx EXCEPT !.u.main_pid = 0,
                          !.ts = IF ctx.u.timer_id # 0
                                 THEN timerset_del(ctx.ts, ctx.u.timer_id) ELSE @]
        m == state_to_S16ServiceMethodype(c1.u.state)
        c2 == IF m \in UnitMethods
              THEN [c1 EXCEPT !.u.fail_cnt[m] = @ + 1]
              ELSE [c1 EXCEPT !.outside = TRUE]
        many == IF m \in UnitMethods
                THEN c2.u.fail_cnt[m] > MaxMethodFail
                ELSE c2.oob = "many"
    IN  IF info.abnormal
        THEN IF c1.u.state = "Online"
             THEN unit_purge_and_target([c1 EXCEPT !.u.target = "Offline"])
             ELSE IF c2.outside /\ c2.oob = "ends"
             THEN [c2 EXCEPT !.ended = TRUE]
             ELSE IF many
             THEN unit_purge_and_target([c2 EXCEPT !.u.target = "Maintenance"])
             ELSE unit_retry_start([c2 EXCEPT !.u.target = c2.u.state])
        ELSE CASE c1.u.state = "US_PRESTART" ->
                    unit_purge_and_target([c1 EXCEPT !.u.target = "US_START"])
               [] c1.u.state \in {"Online", "US_POSTSTART"} ->
                    IF c1.u.type = "U_SIMPLE"
                    THEN unit_enter_stop([c1 EXCEPT !.u.target = "Offline"])
                    ELSE IF c1.u.type # "U_GROUP" /\ c1.u.pids = {}
                    THEN unit_enter_stop([c1 EXCEPT !.u.target = "Offline"])
                    ELSE c1
               [] OTHER -> c1

\* the branch of unit_ptevent for the exit of the secondary PID
unit_ptevent_secondary(ctx, info) ==
    LET c1 == [ctx EXCEPT !.u.secondary_pid = 0,
                          !.ts = IF ctx.u.timer_id # 0
                                 THEN timerset_del(ctx.ts, ctx.u.timer_id) ELSE @]
        m == state_to_S16ServiceMethodype(ctx.u.state)
        c2 == IF m \in UnitMethods THEN [c1 EXCEPT !.u.fail_cnt[m] = @ + 1] ELSE c1
    IN  IF ctx.u.state # "US_POSTSTART" THEN ctx
        ELSE IF info.abnormal
        THEN IF c2.u.fail_cnt[m] > MaxMethodFail
             THEN unit_purge_and_target([c2 EXCEPT !.u.target = "Maintenance"])
             ELSE unit_retry_start([c2 EXCEPT !.u.target = "US_PRESTART"])
        ELSE unit_enter_online(c1)

\* the branch of unit_ptevent for an exit while the unit is stopping
\* unit_ptevent_stopping without the timerset_del calls
unit_ptevent_stopping_keep(ctx) ==
    CASE ctx.u.state = "US_STOP" /\ ctx.u.pids = {} -> unit_enter_stopterm(ctx)
      [] ctx.u.state = "US_STOPTERM" /\ ctx.u.pids = {} -> unit_enter_stopkill(ctx)
      [] OTHER -> ctx

unit_ptevent_stopping(ctx) ==
    CASE ctx.u.state = "US_STOP" /\ ctx.u.pids = {} ->
            unit_enter_stopterm([ctx EXCEPT !.ts = timerset_del(@, ctx.u.timer_id)])
      [] ctx.u.state = "US_STOPTERM" /\ ctx.u.pids = {} ->
            unit_enter_stopkill([ctx EXCEPT !.ts = timerset_del(@, ctx.u.timer_id)])
      [] OTHER -> ctx

unit_ptevent(ctx, info) ==
    LET c1 == IF info.event = kS16ProcessTrackerEventTypeChild
              THEN IF unit_has_pid(ctx.u, info.pid) THEN ctx
                   ELSE [ctx EXCEPT !.pt = S16ProcessTrackerWatchPID(@, info.pid),
                                    !.u.pids = @ \cup {info.pid}]
              ELSE unit_deregister_pid(ctx, info.pid)
    IN  IF info.event # kS16ProcessTrackerEventTypeExit THEN c1
        ELSE IF unit_stopping(c1.u) THEN unit_ptevent_stopping(c1)
        ELSE IF info.pid = c1.u.main_pid THEN unit_ptevent_main(c1, info)
        ELSE IF info.pid = c1.u.secondary_pid THEN unit_ptevent_secondary(c1, info)
        ELSE c1

unit_timer_event(ctx, id) ==
    LET c1 == [ctx EXCEPT !.u.timer_id = 0, !.ts = timerset_del(ctx.ts, id)]
        c2 == [c1 EXCEPT !.u.fail_cnt["UM_PRESTART"] = @ + 1]
    IN  CASE c1.u.state = "US_STOP" -> unit_enter_stopterm(c1)
          [] c1.u.state = "US_STOPTERM" -> c1
          [] c1.u.state = "US_STOPKILL" -> unit_enter_state(c1, c1.u.target)
          [] c1.u.state \in {"US_PRESTART", "US_START"} ->
                IF c2.u.fail_cnt["UM_PRESTART"] > MaxMethodFail
                THEN unit_purge_and_target([c2 EXCEPT !.u.target = "Maintenance"])
                ELSE unit_purge_and_target([c2 EXCEPT !.u.target = "US_PRESTART"])
          [] OTHER -> c1

unit_notify_ready(ctx) ==
    IF ctx.u.state = "US_START"
    THEN unit_enter_poststart(UnitTimerDereg(ctx))
    ELSE ctx

RR_START == "RR_START"

unit_msg(ctx, type) ==
    IF type = RR_START THEN unit_enter_prestart(ctx) ELSE ctx

(***************************************************************************)
(* The unit state machine's specification: one event per step.  The events *)
(* are a start request, the process tracker's child and exit events for    *)
(* the unit's processes, the expiry of a registered timer and a readiness  *)
(* notification.  lastOp holds the event, the methods its handler forked,  *)
(* and the unit and the timer set before it.  The units of SpecUnit have   *)
(* no PreStart method: those with one are the units of SpecRetry and of    *)
(* SpecStop.                                                               *)
(***************************************************************************)
MethodSets == {M \cup {"UM_START"} : M \in SUBSET {"UM_PRESTART", "UM_POSTSTART", "UM_STOP"}}

PlainMethodSets == {M \in MethodSets : "UM_PRESTART" \notin M}

ForkResults == [1..MaxForkFail -> BOOLEAN]

NoEvent ==
    [op |-> "init", path |-> S16PathNew("", ""), pid |-> 0, abnormal |-> FALSE,
     id |-> 0, forked |-> <<>>, failed |-> 0, signals |-> {}, pre |-> <<>>,
     prets |-> {}, registered |-> {}]

InitUnit ==
    /\ repo = <<>>
    /\ graph = <<>>
    /\ notes = <<>>
    /\ aborted = FALSE
    /\ addLog = <<>>
    /\ result = NoResult
    /\ \E type \in UnitTypes, methods \in PlainMethodSets :
          units = [p \in UnitPaths |-> unit_add(p, type, methods)]
    /\ ts = {}
    /\ pt = {}
    /\ lastOp = NoEvent

Failures(u) ==
    u.fail_cnt["UM_PRESTART"] + u.fail_cnt["UM_START"] + u.fail_cnt["UM_POSTSTART"]
    + u.fail_cnt["UM_STOP"] + u.fail_cnt["UM_POSTSTOP"]

\* Outcome lists that differ only in outcomes the handler did not use give
\* the same result: the one whose unused outcomes repeat the last used one
\* (TRUE when no fork was made) stands for them all.
ForksUsed(ctx) == Len(ctx.forked) + ctx.failed

UsedOutcomes(ctx) ==
    \A i \in 1..Len(ctx.fr0) :
        i > ForksUsed(ctx) =>
            ctx.fr0[i] = (IF ForksUsed(ctx) = 0 THEN TRUE ELSE ctx.fr0[ForksUsed(ctx)])

\* The handler's result becomes the state; an event whose handler needs a
\* PID or a timer identifier beyond the model's, or counts more than cap
\* failures, is not taken.  A handler that never returns, or that ends at
\* fail_cnt[-1], stops the daemon; of the outcomes of fail_cnt[-1], "few"
\* stands for them all in a handler that does not come to it.
Handled(p, ctx, ev, cap) ==
    /\ ~aborted
    /\ UsedOutcomes(ctx)
    /\ ~ctx.outside => ctx.oob = "few"
    /\ ~ctx.full
    /\ Failures(ctx.u) <= cap
    /\ units' = [units EXCEPT ![p] = ctx.u]
    /\ ts' = ctx.ts
    /\ pt' = ctx.pt
    /\ lastOp' = [ev EXCEPT !.path = p, !.forked = ctx.forked,
                            !.failed = ctx.failed, !.signals = ctx.signals,
                            !.pre = units[p], !.prets = ts,
                            !.registered = ctx.registered]
    /\ aborted' = (ctx.diverges \/ ctx.ended)
    /\ UNCHANGED <<repo, graph, notes, addLog, result>>

\* RR_START for the unit, in whatever state it is; the request is counted
\* in started.
UnitMsg(p) ==
    /\ p \in DOMAIN units
    /\ units[p].started < MaxStart
    /\ \E fr \in ForkResults :
          Handled(p, unit_msg(UnitCtx([units[p] EXCEPT !.started = @ + 1], ts, fr),
                              RR_START),
                  [NoEvent EXCEPT !.op = "unit_msg"], Failures(units[p]))

\* The birth of a process whose parent the unit tracks: of one the unit
\* registered at its fork, or of a new one.
PtChild(p) ==
    /\ units[p].pids # {}
    /\ \E pid \in Pids :
          /\ pid \in units[p].pids \/ pid \in FreePids(UnitCtx(units[p], ts, <<TRUE>>))
          /\ Handled(p, unit_ptevent(UnitCtx(units[p], ts, <<TRUE>>),
                                     [event |-> kS16ProcessTrackerEventTypeChild,
                                      pid |-> pid, abnormal |-> FALSE]),
                     [NoEvent EXCEPT !.op = "child", !.pid = pid], Failures(units[p]))

manager_find_unit_for_pid(pid) ==
    LET I == {i \in 1..Len(UnitList) :
                 UnitList[i] \in DOMAIN units /\ unit_has_pid(units[UnitList[i]], pid)}
    IN  IF I = {} THEN S16PathNew("", "") ELSE UnitList[Lowest(I)]

ExitEvent(p, pid, abnormal, fr, cap) ==
    /\ p = manager_find_unit_for_pid(pid)
    /\ \E o \in OutOfBounds :
          Handled(p, unit_ptevent([UnitCtx(units[p], ts, fr) EXCEPT !.oob = o],
                                  [event |-> kS16ProcessTrackerEventTypeExit,
                                   pid |-> pid, abnormal |-> abnormal]),
                  [NoEvent EXCEPT !.op = "exit", !.pid = pid, !.abnormal = abnormal], cap)

PtExit(p) ==
    \E pid \in units[p].pids, abnormal \in BOOLEAN, fr \in ForkResults :
        ExitEvent(p, pid, abnormal, fr, MaxFailures)

TimerExpiry(x, fr, cap) ==
    /\ x.cb = "unit_timer_event"
    /\ Handled(x.data, unit_timer_event(UnitCtx(units[x.data], ts, fr), x.id),
               [NoEvent EXCEPT !.op = "timer", !.id = x.id], cap)

TimerEvent ==
    \E x \in ts, fr \in ForkResults : TimerExpiry(x, fr, MaxFailures)

RestartBeginCb ==
    \E x \in ts, fr \in ForkResults :
        /\ x.cb = "unit_restart_begin_cb"
        /\ Handled(x.data, unit_restart_begin_cb(UnitCtx(units[x.data], ts, fr), x.id),
                   [NoEvent EXCEPT !.op = "restart", !.id = x.id],
                   Failures(units[x.data]))

NotifyReady(p) ==
    /\ p \in DOMAIN units
    /\ \E fr \in ForkResults :
          Handled(p, unit_notify_ready(UnitCtx(units[p], ts, fr)),
                  [NoEvent EXCEPT !.op = "ready"], Failures(units[p]))

NextUnit ==
    \/ \E p \in UnitPaths : UnitMsg(p)
    \/ \E p \in UnitPaths : PtChild(p)
    \/ \E p \in UnitPaths : PtExit(p)
    \/ TimerEvent
    \/ RestartBeginCb
    \/ \E p \in UnitPaths : NotifyReady(p)

SpecUnit == InitUnit /\ [][NextUnit]_vars

(***************************************************************************)
(* The unit state machine with a PreStart method that fails persistently:  *)
(* the same events, but the PreStart process never exits normally, and the *)
(* failures are counted as far as the handlers count them.  Such a unit    *)
(* never enters Start, so its PostStart method is never looked at and its  *)
(* type is never read: the units have no PostStart method and one type.    *)
(***************************************************************************)
RetryMethodSets == {M \in MethodSets : "UM_PRESTART" \in M /\ "UM_POSTSTART" \notin M}

RetryTypes == {"U_SIMPLE"}

InitRetry ==
    /\ repo = <<>>
    /\ graph = <<>>
    /\ notes = <<>>
    /\ aborted = FALSE
    /\ addLog = <<>>
    /\ result = NoResult
    /\ \E type \in RetryTypes, methods \in RetryMethodSets :
          units = [p \in UnitPaths |-> unit_add(p, type, methods)]
    /\ ts = {}
    /\ pt = {}
    /\ lastOp = NoEvent

PtExitFailing(p) ==
    \E pid \in units[p].pids, abnormal \in BOOLEAN, fr \in ForkResults :
        /\ (pid = units[p].main_pid /\ units[p].state = "US_PRESTART") => abnormal
        /\ ExitEvent(p, pid, abnormal, fr, 3 * (MaxMethodFail + 1))

TimerEventRetry ==
    \E x \in ts, fr \in ForkResults : TimerExpiry(x, fr, 3 * (MaxMethodFail + 1))

NextRetry ==
    \/ \E p \in UnitPaths : UnitMsg(p)
    \/ \E p \in UnitPaths : PtChild(p)
    \/ \E p \in UnitPaths : PtExitFailing(p)
    \/ TimerEventRetry
    \/ RestartBeginCb
    \/ \E p \in UnitPaths : NotifyReady(p)

SpecRetry == InitRetry /\ [][NextRetry]_vars

(***************************************************************************)
(* Claims about the unit state machine.                                    *)
(***************************************************************************)
\* the registered timers of unit p that call unit_timer_event
StateTimers(p) == {x \in ts : x.data = p /\ x.cb = "unit_timer_event"}

\* C18: after every event handler has returned, each unit either has
\* timer_id = 0 and no state timer registered, or has exactly one state timer
\* registered and timer_id is its identifier.
C18_OneTimer ==
    \A p \in DOMAIN units :
        \/ units[p].timer_id = 0 /\ StateTimers(p) = {}
        \/ /\ Cardinality(StateTimers(p)) = 1
           /\ \A x \in StateTimers(p) : x.id = units[p].timer_id

\* the unit of the last event, after it
EventUnit == units[lastOp.path]

\* the registered timers of unit p that call unit_restart_begin_cb
RestartTimers(p) == {x \in ts : x.data = p /\ x.cb = "unit_restart_begin_cb"}

\* the last event was the exit of the unit's main PID
MainExit ==
    /\ lastOp.op = "exit"
    /\ lastOp.pid = lastOp.pre.main_pid

\* C19: when the main PID of a Simple unit that has arrived at Online exits
\* abnormally and the unit tracks no other PID, the handler leaves the unit
\* with target Offline in state Offline, increments no fail_cnt and schedules
\* no restart timer.
C19_AbnormalExitOnline ==
    (/\ MainExit
     /\ lastOp.abnormal
     /\ lastOp.pre.type = "U_SIMPLE"
     /\ lastOp.pre.arrived = "Online"
     /\ lastOp.pre.pids = {lastOp.pid})
        => /\ EventUnit.target = "Offline"
           /\ EventUnit.state = "Offline"
           /\ EventUnit.fail_cnt = lastOp.pre.fail_cnt
           /\ RestartTimers(lastOp.path) = {}

\* the last event was a readiness notification
Ready == lastOp.op = "ready"

\* the unit was in Start, waiting for the readiness notification
AwaitingReady ==
    /\ lastOp.pre.state = "US_START"
    /\ lastOp.pre.arrived = "Start"

\* C20: a readiness notification for a unit in Start cancels the Start timer
\* and advances the unit to PostStart, or to Online (timer_id = 0, no state
\* timer registered) when the unit has no PostStart method; for a unit in any
\* other state, one that has arrived at PostStart or Online included, it
\* changes nothing and forks nothing.
C20_Readiness ==
    /\ (Ready /\ AwaitingReady /\ lastOp.failed = 0)
          => IF "UM_POSTSTART" \in EventUnit.methods
             THEN /\ EventUnit.state = "US_POSTSTART"
                  /\ lastOp.forked = <<"UM_POSTSTART">>
             ELSE /\ EventUnit.state = "Online"
                  /\ EventUnit.timer_id = 0
                  /\ StateTimers(lastOp.path) = {}
    /\ (Ready /\ ~AwaitingReady)
          => /\ EventUnit = lastOp.pre
             /\ ts = lastOp.prets
             /\ lastOp.forked = <<>>

\* the last event was the abnormal exit of the PreStart process
PreStartFailure ==
    /\ MainExit
    /\ lastOp.abnormal
    /\ lastOp.pre.state = "US_PRESTART"

\* what the handler of a failure of PreStart leaves: the failure is counted;
\* after one of the first five the unit is not in Maintenance and its restart
\* timer is registered; the sixth is the last, and leaves the unit in
\* Maintenance with nothing forked
RetryOutcome ==
    LET n == lastOp.pre.fail_cnt["UM_PRESTART"]
    IN  /\ EventUnit.fail_cnt["UM_PRESTART"] = n + 1
        /\ n < MaxMethodFail
              => /\ EventUnit.state # "Maintenance"
                 /\ \E x \in RestartTimers(lastOp.path) :
                        x.id = EventUnit.meth_restart_timer_id
        /\ n >= MaxMethodFail
              => /\ n = MaxMethodFail
                 /\ EventUnit.state = "Maintenance"
                 /\ lastOp.forked = <<>>

\* the restart timer's callback forks PreStart again
Retried ==
    (lastOp.op = "restart" /\ lastOp.failed = 0)
        => /\ EventUnit.state = "US_PRESTART"
           /\ lastOp.forked = <<"UM_PRESTART">>
           /\ EventUnit.main_pid \in EventUnit.pids

\* C17: each abnormal exit of the PreStart process is counted; after each
\* of the first five the unit is retried (it is not in Maintenance, and the
\* restart callback forks PreStart again), and the sixth leaves
\* fail_cnt[PreStart] = 6 and the unit in Maintenance with no further fork.
\* It is stated for the exits that leave the unit no other tracked PID: a
\* unit that tracks another PID is first purged by unit_purge_and_target.
C17_BoundedRetry ==
    /\ (PreStartFailure /\ lastOp.pre.pids = {lastOp.pid}) => RetryOutcome
    /\ Retried

(***************************************************************************)
(* A Notify unit that is never told its service is ready: the events of    *)
(* SpecUnit without the readiness notification, for a unit of type         *)
(* U_NOTIFY without PreStart and PostStart methods, the failures counted   *)
(* as far as the handlers count them.  Without the notification the unit   *)
(* leaves Start only by the expiry of a timer or by the exit of a process. *)
(***************************************************************************)
AwaitMethodSets == {M \in MethodSets : M \subseteq {"UM_START", "UM_STOP"}}

InitAwait ==
    /\ repo = <<>>
    /\ graph = <<>>
    /\ notes = <<>>
    /\ aborted = FALSE
    /\ addLog = <<>>
    /\ result = NoResult
    /\ \E methods \in AwaitMethodSets :
          units = [p \in UnitPaths |-> unit_add(p, "U_NOTIFY", methods)]
    /\ ts = {}
    /\ pt = {}
    /\ lastOp = NoEvent

PtExitAwait(p) ==
    \E pid \in units[p].pids, abnormal \in BOOLEAN, fr \in ForkResults :
        ExitEvent(p, pid, abnormal, fr, 3 * (MaxMethodFail + 1))

NextAwait ==
    \/ \E p \in UnitPaths : UnitMsg(p)
    \/ \E p \in UnitPaths : PtChild(p)
    \/ \E p \in UnitPaths : PtExitAwait(p)
    \/ TimerEventRetry
    \/ RestartBeginCb

SpecAwait == InitAwait /\ [][NextAwait]_vars

\* C21: a Notify unit that is never notified of readiness does not stay in
\* Start forever, whether its main process keeps running or exits: while it
\* is in Start, the state timer that ends the start attempt is registered.
C21_MissedReadiness ==
    \A p \in UnitPaths :
        units[p].state = "US_START" => StateTimers(p) # {}

\* C22: Maintenance is terminal: for a unit in Maintenance no process event,
\* timer expiry, restart callback or readiness notification changes the state
\* or forks a method; only a start request takes it out of Maintenance.
C22_MaintenanceTerminal ==
    (/\ lastOp.op \in {"child", "exit", "timer", "restart", "ready"}
     /\ lastOp.pre.state = "Maintenance")
        => /\ EventUnit.state = "Maintenance"
           /\ lastOp.forked = <<>>

\* C23: whenever forking a method fails in the entry action of PreStart,
\* Start, PostStart or Stop, the handler returns with target = Maintenance,
\* and the unit is in Maintenance at once if it tracks no PID; this also when
\* PIDs are still tracked and the Stop method cannot be forked.
C23_ForkFailure ==
    (lastOp.op # "init" /\ lastOp.failed > 0)
        => /\ ~aborted
           /\ EventUnit.target = "Maintenance"
           /\ EventUnit.pids = {} => EventUnit.state = "Maintenance"

(***************************************************************************)
(* SpecPids: two units of the manager's list and one process tracker.  The *)
(* units are Simple units with a Start method only; the events are those   *)
(* of SpecUnit, for either unit: start requests in any state, births and   *)
(* exits of processes, timer expiries, restart callbacks and readiness     *)
(* notifications.  Each unit counts one failure at most.                   *)
(***************************************************************************)
PidPaths == {UnitPathAI, UnitPathBI}

PidMethodSets == {{"UM_START"}}

PtExitOnce(p) ==
    \E pid \in units[p].pids, abnormal \in BOOLEAN, fr \in ForkResults :
        ExitEvent(p, pid, abnormal, fr, 1)

InitPids ==
    /\ repo = <<>>
    /\ graph = <<>>
    /\ notes = <<>>
    /\ aborted = FALSE
    /\ addLog = <<>>
    /\ result = NoResult
    /\ \E methods \in [PidPaths -> PidMethodSets] :
          units = [p \in PidPaths |-> unit_add(p, "U_SIMPLE", methods[p])]
    /\ ts = {}
    /\ pt = {}
    /\ lastOp = NoEvent

NextPids ==
    \/ \E p \in PidPaths : UnitMsg(p)
    \/ \E p \in PidPaths : PtChild(p)
    \/ \E p \in PidPaths : PtExitOnce(p)
    \/ TimerEvent
    \/ RestartBeginCb
    \/ \E p \in PidPaths : NotifyReady(p)

SpecPids == InitPids /\ [][NextPids]_vars

\* the units that track the PID
Owners(pid) == {p \in DOMAIN units : unit_has_pid(units[p], pid)}

\* C24: every tracked PID is in the pids list of exactly one unit, and a PID
\* is in the pids list of some unit iff the process tracker watches it.
C24_PidOwnership ==
    \A pid \in Pids :
        /\ Cardinality(Owners(pid)) <= 1
        /\ Owners(pid) # {} <=> pid \in pt

\* an exit event has removed a PID from its unit and from the tracker while
\* the other unit tracks a PID
C24_Witness ==
    /\ lastOp.op = "exit"
    /\ lastOp.pid \in lastOp.pre.pids
    /\ lastOp.pid \notin pt
    /\ \E q \in PidPaths : q # lastOp.path /\ units[q].pids # {}

\* the types of unit that are online as soon as the Start process runs
OnlineAtStart == {"U_SIMPLE", "U_ONESHOT", "U_GROUP"}

\* C25: a Simple, Oneshot or Group unit that enters Start with a successful
\* fork and has no PostStart method has the recorded state Online after the
\* entry action; a successful exit of the PostStart method leaves the
\* recorded state Online too.
C25_RecordedOnline ==
    /\ (/\ lastOp.op = "unit_msg"
        /\ lastOp.forked = <<"UM_START">>
        /\ lastOp.failed = 0
        /\ "UM_POSTSTART" \notin EventUnit.methods
        /\ EventUnit.type \in OnlineAtStart)
           => EventUnit.state = "Online"
    /\ (/\ lastOp.op = "exit"
        /\ lastOp.pre.state = "US_POSTSTART"
        /\ lastOp.pid = lastOp.pre.secondary_pid
        /\ lastOp.pid # lastOp.pre.main_pid
        /\ ~lastOp.abnormal)
           => EventUnit.state = "Online"

(***************************************************************************)
(* The SC_OFFLINE note at the head of the queue.                           *)
(***************************************************************************)
ProcessingOffline ==
    /\ ~aborted
    /\ notes # <<>>
    /\ Head(notes).note_type = "N_STATE_CHANGE"
    /\ Head(notes).type = "SC_OFFLINE"

\* The instances reached from the vertices of front along dependency edges
\* that pass through DepGroup and Service vertices only.
RECURSIVE DependencyInstances(_, _, _)
DependencyInstances(g, front, found) ==
    LET next == UNION {Range(g[u].dependencies) : u \in front}
        new == next \ found
    IN  IF new = {}
        THEN {u \in found : g[u].type = "V_INST"}
        ELSE DependencyInstances(g, {u \in new : g[u].type # "V_INST"}, found \cup new)

\* the notes of the given type that the step appended for the path
AppendedFor(type, path) ==
    {n \in 1..Len(Appended) : Appended[n].type = type /\ Appended[n].path = path}

\* C26: processing SC_OFFLINE(v, reason) sets v.state to Offline and clears
\* v.to_offline.  If to_offline was clear, it appends exactly one SC_ONLINE(v)
\* iff v can come up.  If to_offline was set, it appends no SC_ONLINE(v),
\* appends SC_DISABLED(v) iff v.to_disable is set, and appends SC_OFFLINE for
\* each dependency Instance that is marked to_offline and can go down.
C26_ProcessOffline ==
    [][(ProcessingOffline /\ ~aborted')
          => LET v == HeadVertex
                 path == Head(notes).path
             IN  /\ graph'[v].state = "Offline"
                 /\ ~graph'[v].to_offline
                 /\ ~graph[v].to_offline
                       => /\ Cardinality(AppendedFor("SC_ONLINE", path)) <= 1
                          /\ AppendedFor("SC_ONLINE", path) # {}
                                <=> vtx_inst_can_come_up(graph', v) = "yes"
                 /\ graph[v].to_offline
                       => /\ AppendedFor("SC_ONLINE", path) = {}
                          /\ AppendedFor("SC_DISABLED", path) # {} <=> graph[v].to_disable
                          /\ \A u \in DependencyInstances(graph', {v}, {}) :
                                (/\ graph'[u].to_offline
                                 /\ vtx_can_go_down(graph', u, TRUE, Hops(graph')) = "yes")
                                   => \E n \in Range(Appended) :
                                         n = s16note_new("N_STATE_CHANGE", "SC_OFFLINE",
                                                         graph'[u].path, Head(notes).reason)]_vars

\* SC_OFFLINE(a:i) was processed with to_offline set, in the scenario where
\* a:i requires b:j: a:i is Offline and SC_OFFLINE(b:j) waits in the queue.
C26_Witness ==
    /\ RequireScenario
    /\ lastOp.type = "A_DISABLE"
    /\ lastOp.path = PathBJ
    /\ ~aborted
    /\ lastOp.pre[VtxAI].state = "Online"
    /\ graph[VtxAI].state = "Offline"
    /\ ~graph[VtxAI].to_offline
    /\ \E n \in Range(notes) : n.type = "SC_OFFLINE" /\ n.path = PathBJ

\* The instances reached from the vertices of front along dependents edges
\* that pass through Service vertices and through DepGroup vertices that are
\* not ExcludeAll and have restart_on >= reason.
RECURSIVE StopClosure(_, _, _, _)
StopClosure(g, reason, front, found) ==
    LET next == UNION {Range(g[u].dependents) : u \in front}
        new == next \ found
        through == {u \in new :
                       \/ g[u].type = "V_SVC"
                       \/ /\ g[u].type = "V_DEPGROUP"
                          /\ g[u].dg_type # "kS16ExcludeAll"
                          /\ g[u].restart_on >= reason}
    IN  IF new = {}
        THEN {u \in found : g[u].type = "V_INST"}
        ELSE StopClosure(g, reason, through, found \cup new)

StopTargets(g, v, reason) ==
    {u \in StopClosure(g, reason, {v}, {}) : vtx_is_running(g, u)}

\* the running instances for which the step appended SC_OFFLINE with the
\* reason of the note it processed
StoppedBy ==
    {u \in 1..Len(graph) :
        /\ graph'[u].type = "V_INST"
        /\ vtx_is_running(graph', u)
        /\ s16note_new("N_STATE_CHANGE", "SC_OFFLINE", graph'[u].path, Head(notes).reason)
              \in Range(Appended)}

\* the dependency instances the SC_OFFLINE case sends offline
OfflineDependencies(g, v) ==
    {u \in DependencyInstances(g, {v}, {}) :
        g[u].to_offline /\ vtx_can_go_down(g, u, TRUE, Hops(g)) = "yes"}

\* C27: when SC_OFFLINE(v, reason) is processed, SC_OFFLINE(d, reason) is
\* appended for a running Instance d iff d is reached from v along dependents
\* edges through Service vertices and DepGroup vertices that are not
\* ExcludeAll and have restart_on >= reason.
C27_StopPropagation ==
    [][(ProcessingOffline /\ ~aborted')
          => StoppedBy = StopTargets(graph', HeadVertex, Head(notes).reason)]_vars

\* C27, amended: the same, where the running instances that are dependencies
\* of v marked to_offline and able to go down also get SC_OFFLINE when v was
\* marked to_offline.
C27_StopPropagationDependents ==
    [][(ProcessingOffline /\ ~aborted')
          => StoppedBy
                = StopTargets(graph', HeadVertex, Head(notes).reason)
                  \cup (IF graph[HeadVertex].to_offline
                        THEN {u \in OfflineDependencies(graph', HeadVertex) :
                                 vtx_is_running(graph', u)}
                        ELSE {})]_vars

\* In the scenario where a:i requires b:j, SC_OFFLINE(b:j) was processed
\* while a:i was running, and SC_OFFLINE(a:i) with its reason waits in the
\* queue.
C27_Witness ==
    /\ RequireScenario
    /\ ~aborted
    /\ lastOp.type = "SC_OFFLINE"
    /\ lastOp.path = PathBJ
    /\ graph[VtxBJ].state = "Offline"
    /\ vtx_is_running(graph, VtxAI)
    /\ s16note_new("N_STATE_CHANGE", "SC_OFFLINE", PathAI, lastOp.reason) \in Range(notes)

(***************************************************************************)
(* The A_DISABLE request at the head of the queue.                         *)
(***************************************************************************)
ProcessingDisable ==
    /\ ~aborted
    /\ notes # <<>>
    /\ Head(notes).note_type = "N_ADMIN_REQ"
    /\ Head(notes).type = "A_DISABLE"

\* the DepGroup vertices that pass a stop for the reason
ReasonPass(g, reason) ==
    {u \in 1..Len(g) : g[u].dg_type # "kS16ExcludeAll" /\ g[u].restart_on >= reason}

\* the DepGroup vertices that are not ExcludeAll and whose restart_on is
\* neither None nor Error
AdminPass(g) ==
    {u \in 1..Len(g) :
        /\ g[u].dg_type # "kS16ExcludeAll"
        /\ g[u].restart_on \notin {kS16RestartOnNone, kS16RestartOnError}}

\* The instances reached from the vertices of front along dependents edges
\* that cross the DepGroup vertices of pass only.
RECURSIVE MarkClosure(_, _, _, _)
MarkClosure(g, pass, front, found) ==
    LET next == UNION {Range(g[u].dependents) : u \in front}
        new == next \ found
    IN  IF new = {}
        THEN {u \in found : g[u].type = "V_INST"}
        ELSE MarkClosure(g, pass, {u \in new : g[u].type # "V_DEPGROUP" \/ u \in pass},
                         found \cup new)

\* The step set the flags of the vertex of the request, set to_offline on
\* the other instances of marked and left it as it was on the rest.
Disabled(marked) ==
    /\ graph'[HeadVertex].to_disable
    /\ graph'[HeadVertex].to_offline
    /\ ~graph'[HeadVertex].is_enabled
    /\ \A u \in 1..Len(graph) :
          (graph[u].type = "V_INST" /\ u # HeadVertex)
             => graph'[u].to_offline = (u \in marked \/ graph[u].to_offline)

\* C28: processing A_DISABLE(v, reason) sets to_disable and to_offline and
\* clears is_enabled on v, and sets to_offline on exactly the other Instances
\* reached from v along dependents edges where every DepGroup crossed is not
\* ExcludeAll and has restart_on not below the reason of the request; the
\* other instances keep to_offline.
C28_AdminDisable ==
    [][(ProcessingDisable /\ ~aborted')
          => Disabled(MarkClosure(graph, ReasonPass(graph, Head(notes).reason),
                                  {HeadVertex}, {}))]_vars

\* C28, amended: the same, where the DepGroups crossed are not ExcludeAll and
\* have a restart_on that is neither None nor Error, whatever the reason of
\* the request.
C28_AdminDisableRestart ==
    [][(ProcessingDisable /\ ~aborted')
          => Disabled(MarkClosure(graph, AdminPass(graph), {HeadVertex}, {}))]_vars

\* In the scenario where a:i requires b:j, A_DISABLE(b:j) was processed and
\* marked a:i, which was not marked before.
C28_Witness ==
    /\ RequireScenario
    /\ ~aborted
    /\ lastOp.type = "A_DISABLE"
    /\ lastOp.path = PathBJ
    /\ ~lastOp.pre[VtxAI].to_offline
    /\ graph[VtxBJ].to_disable
    /\ ~graph[VtxBJ].is_enabled
    /\ graph[VtxAI].to_offline

\* can_go_down as the specification words it, to depth d.
RECURSIVE CanGoDown(_, _, _, _)
CanGoDown(g, v, root, d) ==
    /\ d >= 0
    /\ ~(g[v].type = "V_INST" /\ vtx_is_running(g, v) /\ ~root)
    /\ \A u \in Range(g[v].dependents) :
          \/ g[u].type = "V_INST" /\ g[u].to_offline
          \/ CanGoDown(g, u, FALSE, d - 1)

\* C29: can_go_down(v, root) is true iff every dependent of v is an Instance
\* with to_offline set or can go down itself (not as root), where a running
\* Instance that is not the root cannot; so v cannot go down while it has a
\* running Instance dependent that is not marked to_offline.
C29_CanGoDown ==
    \A v \in 1..Len(graph) : \A root \in BOOLEAN :
        LET down == vtx_can_go_down(graph, v, root, Hops(graph))
        IN  down # "abort"
               => /\ down = "yes" <=> CanGoDown(graph, v, root, Hops(graph))
                  /\ (\E u \in Range(graph[v].dependents) :
                         /\ graph[u].type = "V_INST"
                         /\ vtx_is_running(graph, u)
                         /\ ~graph[u].to_offline)
                        => down = "no"

\* the last tracked PID of the unit exited while the unit was in Stop or
\* StopTerm
LastStopExit ==
    /\ lastOp.op = "exit"
    /\ lastOp.pre.state \in {"US_STOP", "US_STOPTERM"}
    /\ lastOp.pre.pids = {lastOp.pid}

\* the handler deleted the timer named by timer_id: no timer has that
\* identifier, but one the handler registered after it
TimerDeregistered ==
    lastOp.pre.timer_id \in timerset_ids(ts) => lastOp.pre.timer_id \in lastOp.registered

\* the unit is in the target state, and the handler forked nothing and sent
\* no signal
InTarget ==
    /\ ~aborted
    /\ EventUnit.state = lastOp.pre.target
    /\ lastOp.forked = <<>>
    /\ lastOp.failed = 0
    /\ lastOp.signals = {}

\* the entry action of the target forked its methods, no fork failed and no
\* signal was sent
TargetForked ==
    /\ ~aborted
    /\ lastOp.failed = 0
    /\ lastOp.forked # <<>>
    /\ state_to_S16ServiceMethodype(EventUnit.state) = lastOp.forked[Len(lastOp.forked)]
    /\ lastOp.signals = {}

\* the first fork of the entry action failed: the unit is in Maintenance
\* and no signal was sent
FirstForkFailed ==
    /\ ~aborted
    /\ lastOp.failed > 0
    /\ lastOp.forked = <<>>
    /\ EventUnit.state = "Maintenance"
    /\ lastOp.signals = {}

\* a fork failed after the entry action had forked a process: the target
\* is Maintenance and the unit is purged again, by the Stop method or by
\* SIGTERM to the processes just forked, or the handler does not return
\* because the Stop method cannot be forked
PurgedAgain ==
    /\ lastOp.failed > 0
    /\ lastOp.forked # <<>>
    /\ EventUnit.target = "Maintenance"
    /\ \/ aborted /\ "UM_STOP" \in EventUnit.methods
       \/ /\ ~aborted
          /\ EventUnit.state = "US_STOP"
          /\ lastOp.forked[Len(lastOp.forked)] = "UM_STOP"
          /\ lastOp.signals = {}
       \/ /\ ~aborted
          /\ EventUnit.state = "US_STOPTERM"
          /\ "UM_STOP" \notin EventUnit.methods
          /\ lastOp.signals # {}
          /\ \A sg \in lastOp.signals : sg[1] \in EventUnit.pids /\ sg[2] = "SIGTERM"

\* the unit has entered the state: it is in it, or, for the states that
\* fork a method, it has run their entry action
EnteredTarget(state) ==
    CASE state \in {"Offline", "Maintenance", "None"} -> EventUnit.state = state
      [] state \in {"US_PRESTART", "US_START"} -> lastOp.forked # <<>> \/ lastOp.failed > 0
      [] OTHER -> FALSE

StopMethodSets == {M \in MethodSets : {"UM_PRESTART", "UM_POSTSTART"} \subseteq M}

InitStop ==
    /\ repo = <<>>
    /\ graph = <<>>
    /\ notes = <<>>
    /\ aborted = FALSE
    /\ addLog = <<>>
    /\ result = NoResult
    /\ \E methods \in StopMethodSets :
          units = [p \in UnitPaths |-> unit_add(p, "U_SIMPLE", methods)]
    /\ ts = {}
    /\ pt = {}
    /\ lastOp = NoEvent

NextStop ==
    \/ \E p \in UnitPaths : UnitMsg(p)
    \/ \E p \in UnitPaths : PtChild(p)
    \/ \E p \in UnitPaths : PtExitOnce(p)
    \/ TimerEvent
    \/ RestartBeginCb

SpecStop == InitStop /\ [][NextStop]_vars

(***************************************************************************)
(* The note at the head of the queue, of any kind.                         *)
(***************************************************************************)
ProcessingNote == ~aborted /\ notes # <<>>

\* C31: processing one note changes the state field of at most the vertex the
\* note addresses: an administrative request changes no vertex's state, a
\* state change changes the state and the flags of the addressed vertex only,
\* and no handler changes the edges or the number of vertices.
C31_NoteFrame ==
    [][(ProcessingNote /\ ~aborted')
          => /\ Len(graph') = Len(graph)
             /\ \A u \in 1..Len(graph) :
                   /\ u # HeadVertex => graph'[u].state = graph[u].state
                   /\ Head(notes).note_type = "N_ADMIN_REQ"
                         => graph'[u].state = graph[u].state
                   /\ (Head(notes).note_type = "N_STATE_CHANGE" /\ u # HeadVertex)
                         => graph'[u] = graph[u]
                   /\ graph'[u].dependencies = graph[u].dependencies
                   /\ graph'[u].dependents = graph[u].dependents]_vars

\* A_DISABLE(b:j) was processed in the scenario where a:i requires b:j: it
\* marked a:i and b:j, changed no state, and an SC_OFFLINE note waits.
C31_Witness ==
    /\ RequireScenario
    /\ ~aborted
    /\ lastOp.type = "A_DISABLE"
    /\ lastOp.path = PathBJ
    /\ graph[VtxBJ].to_disable
    /\ graph[VtxAI].to_offline /\ ~lastOp.pre[VtxAI].to_offline
    /\ \A u \in 1..Len(graph) : graph[u].state = lastOp.pre[u].state
    /\ \E n \in Range(notes) : n.type = "SC_OFFLINE"

\* The instances marked to_offline for which the step's disable sequence
\* appended SC_OFFLINE: the scan of A_DISABLE over the vertex list, or the
\* walk over the dependencies of a vertex that went offline while marked.
SentOffline ==
    IF ProcessingDisable
    THEN {u \in 1..Len(graph) :
             /\ graph'[u].type = "V_INST"
             /\ graph'[u].to_offline
             /\ \E n \in Range(Appended) : n.type = "SC_OFFLINE" /\ n.path = graph'[u].path}
    ELSE IF ProcessingOffline /\ graph[HeadVertex].to_offline
    THEN OfflineDependencies(graph', HeadVertex)
    ELSE {}

\* the running instances marked to_offline that depend on u through DepGroup
\* and Service vertices
MarkedRunningDependents(g, u) ==
    {w \in StartClosure(g, {u}, {}) : g[w].to_offline /\ vtx_is_running(g, w)}

\* C32: whenever the disable sequence appends SC_OFFLINE for an Instance v
\* marked to_offline, no Instance that depends on v through DepGroup and
\* Service vertices and is marked to_offline is running.
C32_ShutdownOrder ==
    [][(ProcessingNote /\ ~aborted')
          => \A u \in SentOffline : MarkedRunningDependents(graph', u) = {}]_vars

\* In the scenario where a:i requires b:j, A_DISABLE(b:j) marked both, a:i
\* has gone offline, and SC_OFFLINE(b:j) waits in the queue while b:j runs.
C32_Witness ==
    /\ RequireScenario
    /\ ~aborted
    /\ lastOp.type = "A_DISABLE"
    /\ lastOp.path = PathBJ
    /\ vtx_is_running(lastOp.pre, VtxAI)
    /\ ~vtx_is_running(graph, VtxAI)
    /\ vtx_is_running(graph, VtxBJ)
    /\ graph[VtxBJ].to_offline
    /\ notes = <<s16note_new("N_STATE_CHANGE", "SC_OFFLINE", PathBJ, kS16RestartOnRestart)>>

\* C33: every SIGTERM or SIGKILL a handler sends goes to a PID that is in
\* the pids set of the unit when StopTerm or StopKill sends it.
C33_SignalTargets ==
    (~aborted /\ lastOp.op # "init")
        => \A s \in lastOp.signals : s[1] \in EventUnit.pids

\* a timer of unit p is registered
TimerPending(p) == \E x \in ts : x.data = p

\* the last handler sent SIGKILL to a PID that unit p tracks
KillPending(p) ==
    \E s \in lastOp.signals : s[2] = "SIGKILL" /\ s[1] \in units[p].pids

\* C34: once unit_purge_and_target has put a unit with tracked PIDs into the
\* stop sequence, the unit eventually enters its target state, given that
\* timers fire and that processes sent SIGKILL exit, while SIGTERM may be
\* ignored: the sequence escalates from Stop to StopTerm to StopKill.  Only
\* a timer or the exit of a killed process is then certain to come, so a
\* unit that is stopping and tracks PIDs always has one of them pending.
C34_StopEscalates ==
    \A p \in UnitPaths :
        (~aborted /\ unit_stopping(units[p]) /\ units[p].pids # {})
            => (TimerPending(p) \/ KillPending(p))
====
